---- MODULE Spec2Model ----
(***************************************************************************)
(* A model of gpt-shell's conversation memory store (context_memory.py)    *)
(* and of the embedding index rebuild (cli_assistant_fs.py).               *)
(*                                                                         *)
(* Time is counted in hours.  A message is a sequence of lower-case words  *)
(* and stands for one line of text; the tokenizer counts one token per     *)
(* word.  Costs are whole numbers of a small currency unit.                *)
(***************************************************************************)
EXTENDS Integers, Sequences, FiniteSets, TLC

\* ------------------------------------------------------------------ bounds
MaxDays == 2
MaxTurns == 2
MaxSessions == 1
MaxSummaries == 1
MaxTokens == 4
MaxKeep == 1
MaxMtime == 2
MaxLen == 3
MaxSize == 5
MaxTopK == 2
MaxResults == 3
MaxSends == 4
MaxToolCalls == 2

\* --------------------------------------------------------------- constants
HOUR == 1
DAY == 24
WEEK == 168
FETCH_LIMIT == 50
IMPORTANT_CAP == 10
SUMMARY_LINES == 5
TOPIC_COUNT == 5
\* The index runs with RAG_CHUNK_SIZE=3, RAG_CHUNK_OVERLAP=1, EMBED_BATCH=2.
CHUNK_SIZE == 3
CHUNK_OVERLAP == 1
EMBED_BATCH == 2
\* Retrieval runs with RAG_MAX_CHUNK_CHARS=2.
RAG_MAX_CHUNK_CHARS == 2
\* The file tools run with MAX_BYTES_PER_READ=4.
DEFAULT_MAX_BYTES == 4
\* Enumeration runs with EMBED_MAX_FILE_BYTES=6.
EMBED_MAX_FILE_BYTES == 6
MAX_ATTEMPTS == 6
\* The chat runs with MAX_HISTORY_MSGS=3.
MAX_HISTORY_MSGS == 3

Projects == {"p1", "p2"}
Periods == {"last_hour", "last_day", "last_week"}
Keywords == {"created", "modified", "error", "fixed", "implemented"}
TechWords == {"python", "javascript", "react", "api", "database", "sql",
              "docker", "git", "test", "bug", "feature", "function"}

\* A recorded tool call {"function": {"name": ..., "arguments": ...}}.  The
\* arguments are a mapping, or the JSON text of one as the chat API sends it.
Mapping(m) == <<"dict", m>>
JsonString(m) == <<"json", m>>
ToolCall(name, arguments) ==
  [function |-> [name |-> name, arguments |-> arguments]]

\* The exchanges a caller records: user text, assistant text, tool calls,
\* tokens used and cost of one completed exchange.
Exchanges ==
  { [user_message |-> <<"fixed", "bug">>, assistant_message |-> <<"test">>,
     tool_calls |-> << ToolCall("write_file", Mapping([path |-> "a.py"])) >>,
     tokens_used |-> 2, cost |-> 1],
    [user_message |-> <<"test">>, assistant_message |-> << >>,
     tool_calls |-> << ToolCall("list_dir", JsonString([path |-> "."])),
                       ToolCall("write_file", JsonString([path |-> "b.py"])) >>,
     tokens_used |-> 1, cost |-> 2] }

VARIABLES
  now,               \* wall clock (datetime.now()), in hours
  conversations,     \* table conversations: a set of rows, each with its id
  nextId,            \* next AUTOINCREMENT id of conversations
  sessions,          \* table sessions: a set of rows keyed by session_id
  context_summaries, \* table context_summaries: rows in insertion order
  cl,                \* the frame of a running cleanup_old_conversations call
  ret,               \* the last operation and what it returned
  purged,            \* projects that have had a turn deleted
  crashed,           \* projects whose archived summary was written by a
                     \* cleanup call that died before its DELETE
  disk,              \* the files under WORKDIR: path -> mtime and content
  files,             \* table files of embeddings.db
  chunks,            \* table chunks of embeddings.db, in insertion order
  run,               \* the frame of a running run_init_index call
  clean,             \* the last rebuild that had work committed every
                     \* file, and no file has changed since
  EMBED_DB           \* the database file exists and is not empty

memVars == <<now, conversations, nextId, sessions, context_summaries, cl,
             ret, purged, crashed>>
memVarsButRet == <<now, conversations, nextId, sessions, context_summaries,
                   cl, purged, crashed>>
idxVars == <<disk, files, chunks, run, clean, EMBED_DB>>
vars == <<memVars, idxVars>>

\* ----------------------------------------------------------------- helpers
\* SQL SUM(tokens_used) and SUM(cost) over a set of rows.
RECURSIVE SumTokensUsed(_)
SumTokensUsed(S) ==
  IF S = {} THEN 0
  ELSE LET x == CHOOSE y \in S : TRUE IN x.tokens_used + SumTokensUsed(S \ {x})

RECURSIVE SumCost(_)
SumCost(S) ==
  IF S = {} THEN 0
  ELSE LET x == CHOOSE y \in S : TRUE IN x.cost + SumCost(S \ {x})

RECURSIVE Flatten(_)
Flatten(ss) == IF ss = << >> THEN << >> ELSE Head(ss) \o Flatten(Tail(ss))

Take(s, n) == IF Len(s) <= n THEN s ELSE SubSeq(s, 1, n)

Min(a, b) == IF a <= b THEN a ELSE b
Max(a, b) == IF a >= b THEN a ELSE b

\* ORDER BY timestamp ASC: every sequence of the rows with non-decreasing
\* timestamps (SQL leaves the order of equal timestamps open).
RECURSIVE OrderByTimestampAsc(_)
OrderByTimestampAsc(S) ==
  IF S = {} THEN { << >> }
  ELSE UNION { { <<t>> \o rest : rest \in OrderByTimestampAsc(S \ {t}) } :
               t \in { x \in S : \A y \in S : x.timestamp <= y.timestamp } }

RECURSIVE Reverse(_)
Reverse(s) == IF s = << >> THEN << >> ELSE Reverse(Tail(s)) \o <<Head(s)>>

OrderByTimestampDesc(S) == { Reverse(s) : s \in OrderByTimestampAsc(S) }

\* tiktoken's encode(): one token per word.
encode(text) == text

IdleFrame == [pc |-> "idle", days |-> 0, cutoff |-> 0, pending |-> {},
              written |-> {}]

\* What an operation reports: a returned value, an exception, a call still
\* running, or a call ended by the death of the process.
Returned(op, arg, val) == [op |-> op, arg |-> arg, st |-> "ok", val |-> val]
Raised(op, arg, err) == [op |-> op, arg |-> arg, st |-> "error", val |-> err]
Running(op, arg) == [op |-> op, arg |-> arg, st |-> "running", val |-> << >>]
Killed(op, arg) == [op |-> op, arg |-> arg, st |-> "killed", val |-> << >>]

\* The candidate files of WORKDIR and the texts they hold: an empty file,
\* a file of one chunk and a file of three chunks.
Paths == {"f1", "f2"}
Texts == { << >>, <<"x">>, <<"a", "b", "c", "d", "e", "f">> }

\* The modification times a file is written with: f1 is written again and
\* again, f2 always within the same second.
Mtimes(path) == IF path = "f1" THEN 1..MaxMtime ELSE {1}

\* The texts, sizes and overlaps _chunk_text is called with.
RECURSIVE Strings(_)
Strings(n) ==
  IF n = 0 THEN { << >> }
  ELSE Strings(n - 1) \cup
       { Append(t, c) : t \in { u \in Strings(n - 1) : Len(u) = n - 1 },
                        c \in {"a", "b"} }
HelloWorld == <<"h", "e", "l", "l", "o", " ", "w", "o", "r", "l", "d">>
ChunkTexts == Strings(MaxLen) \cup {HelloWorld}
Sizes == (-1)..MaxSize
Overlaps == (-1)..(MaxSize + 1)

NoPass == [path |-> "", chunked |-> FALSE, requests |-> << >>, vectors |-> 0,
           raised |-> FALSE, wrote |-> FALSE]
IdleRun == [pc |-> "idle", todo |-> << >>, indexed_files |-> 0,
            indexed_chunks |-> 0, committed |-> {}, enumerated |-> {},
            last |-> NoPass]

\* -------------------------------------------------------------------- Init
Init ==
  /\ now = 0
  /\ conversations = {}
  /\ nextId = 1
  /\ sessions = {}
  /\ context_summaries = << >>
  /\ cl = IdleFrame
  /\ ret = Returned("init", << >>, << >>)
  /\ purged = {}
  /\ crashed = {}
  /\ disk = [p \in Paths |-> << >>]
  /\ files = {}
  /\ chunks = << >>
  /\ run = IdleRun
  /\ clean = FALSE
  /\ EMBED_DB = FALSE

\* The clock advances between operations.
Tick ==
  /\ cl.pc = "idle"
  /\ now + DAY <= MaxDays * DAY
  /\ now' = now + DAY
  /\ ret' = Returned("tick", << >>, << >>)
  /\ UNCHANGED <<idxVars, conversations, nextId, sessions, context_summaries, cl,
                 purged, crashed>>


\* ------------------------------------------------------------ sessions
\* hashlib.md5(f"{project_path}_{now}")[:12]: the id is a function of the
\* project path and the start time.
SessionId(project_path, t) == <<project_path, t>>

\* A session id that no start_session call produced.
NoSession == <<"none", 0>>

SessionIds == { s.session_id : s \in sessions }

start_session(project_path) ==
  LET session_id == SessionId(project_path, now) IN
  /\ cl.pc = "idle"
  /\ Cardinality(sessions) < MaxSessions
  /\ IF session_id \in SessionIds
       THEN \* PRIMARY KEY violation: the INSERT raises and nothing is stored
            /\ sessions' = sessions
            /\ ret' = Raised("start_session", project_path, "IntegrityError")
       ELSE /\ sessions' = sessions \cup
                 { [session_id |-> session_id, project_path |-> project_path,
                    started_at |-> now, ended_at |-> << >>,
                    total_turns |-> 0, total_tokens |-> 0, total_cost |-> 0] }
            /\ ret' = Returned("start_session", project_path, session_id)
  /\ UNCHANGED <<idxVars, now, conversations, nextId, context_summaries, cl, purged,
                 crashed>>

\* Mutant: the statistics forget the session (no WHERE session_id = ?).
AllRows(rows, session_id) == rows

\* SELECT COUNT(*), SUM(tokens_used), SUM(cost) ... WHERE session_id = ?
SessionRows(rows, session_id) == { t \in rows : t.session_id = session_id }

SessionStats(rows, session_id) ==
  LET mine == SessionRows(rows, session_id) IN
  <<Cardinality(mine), SumTokensUsed(mine), SumCost(mine)>>

\* Mutant: the UPDATE has no WHERE clause.
UpdateEverySession(rows, session_id, ended_at, stats) ==
  { [s EXCEPT !.ended_at = <<ended_at>>,
              !.total_turns = stats[1],
              !.total_tokens = stats[2],
              !.total_cost = stats[3]] : s \in rows }

\* UPDATE sessions SET ended_at = ?, total_turns = ?, ... WHERE session_id = ?
UpdateSession(rows, session_id, ended_at, stats) ==
  { IF s.session_id = session_id
      THEN [s EXCEPT !.ended_at = <<ended_at>>,
                     !.total_turns = stats[1],
                     !.total_tokens = stats[2],
                     !.total_cost = stats[3]]
      ELSE s : s \in rows }

end_session(session_id) ==
  LET stats == SessionStats(conversations, session_id) IN
  /\ cl.pc = "idle"
  /\ sessions' = UpdateSession(sessions, session_id, now, stats)
  /\ ret' = Returned("end_session", session_id, << >>)
  /\ UNCHANGED <<idxVars, now, conversations, nextId, context_summaries, cl, purged,
                 crashed>>

\* ---------------------------------------------------------------- turns
\* Mutant: INSERT OR REPLACE keyed by the session, which drops the
\* session's earlier turns.
ReplaceTurn(rows, row) ==
  { t \in rows : t.session_id # row.session_id } \cup {row}

\* INSERT INTO conversations: one new row under the next id.
InsertTurn(rows, row) == rows \cup {row}


save_conversation_turn(turn) ==
  /\ cl.pc = "idle"
  /\ nextId <= MaxTurns
  /\ conversations' = InsertTurn(conversations,
       [id |-> nextId, session_id |-> turn.session_id,
        timestamp |-> turn.timestamp, project_path |-> turn.project_path,
        user_message |-> turn.user_message,
        assistant_message |-> turn.assistant_message,
        tool_calls |-> turn.tool_calls, tokens_used |-> turn.tokens_used,
        cost |-> turn.cost])
  /\ nextId' = nextId + 1
  /\ ret' = Returned("save_conversation_turn", << >>, << >>)
  /\ UNCHANGED <<idxVars, now, sessions, context_summaries, cl, purged, crashed>>

Turn(e, project_path, session_id, timestamp) ==
  [timestamp |-> timestamp, user_message |-> e.user_message,
   assistant_message |-> e.assistant_message, tool_calls |-> e.tool_calls,
   tokens_used |-> e.tokens_used, cost |-> e.cost,
   project_path |-> project_path, session_id |-> session_id]

\* ------------------------------------------------------- context builder
ProjectRows(rows, project_path) ==
  { t \in rows : t.project_path = project_path }

\* len(self.tokenizer.encode(user_msg + assistant_msg))
TurnTokens(t) == Len(encode(t.user_message \o t.assistant_message))

\* Mutant: the budget is tested before the turn is counted.
OverBudgetBeforeAdding(total_tokens, turn_tokens, max_tokens) ==
  total_tokens > max_tokens

\* if total_tokens + turn_tokens > max_tokens: break
OverBudget(total_tokens, turn_tokens, max_tokens) ==
  total_tokens + turn_tokens > max_tokens

\* Mutant: the two messages are appended instead of inserted in front.
AppendBack(context, t) ==
  context \o << [role |-> "user", content |-> t.user_message],
               [role |-> "assistant", content |-> t.assistant_message] >>

\* context.insert(0, user); context.insert(1, assistant)
InsertFront(context, t) ==
  << [role |-> "user", content |-> t.user_message],
     [role |-> "assistant", content |-> t.assistant_message] >> \o context

\* The loop over the fetched rows, most recent first.
RECURSIVE BuildContext(_, _, _, _)
BuildContext(fetched, context, total_tokens, max_tokens) ==
  IF fetched = << >> THEN context
  ELSE LET t == Head(fetched)
           turn_tokens == TurnTokens(t)
       IN IF OverBudget(total_tokens, turn_tokens, max_tokens)
            THEN context
            ELSE BuildContext(Tail(fetched), InsertFront(context, t),
                              total_tokens + turn_tokens, max_tokens)

\* Mutant: the query has no LIMIT.
RecentContextsNoLimit(rows, project_path, max_tokens) ==
  { BuildContext(fetched, << >>, 0, max_tokens) :
      fetched \in OrderByTimestampDesc(ProjectRows(rows, project_path)) }

\* The results get_recent_context can return: one per order of the fetch.
RecentContexts(rows, project_path, max_tokens) ==
  { BuildContext(Take(fetched, FETCH_LIMIT), << >>, 0, max_tokens) :
      fetched \in OrderByTimestampDesc(ProjectRows(rows, project_path)) }

get_recent_context(project_path, max_tokens) ==
  /\ cl.pc = "idle"
  /\ \E context \in RecentContexts(conversations, project_path, max_tokens) :
       ret' = Returned("get_recent_context",
                       [project_path |-> project_path,
                        max_tokens |-> max_tokens], context)
  /\ UNCHANGED <<idxVars, now, conversations, nextId, sessions, context_summaries, cl,
                 purged, crashed>>

\* ------------------------------------------------------------ summarizer
\* One line of text per message: f"User: {user_msg}\nAssistant: {assistant_msg}\n\n"
TurnLines(t) ==
  << <<"User:">> \o t.user_message, <<"Assistant:">> \o t.assistant_message,
     << >> >>

\* all_text of the rows in the given order; text.split('\n') ends with one
\* more empty line.
AllText(ordered) ==
  Flatten([i \in 1..Len(ordered) |-> TurnLines(ordered[i])]) \o << << >> >>

HasKeyword(line) == \E i \in 1..Len(line) : line[i] \in Keywords

SummaryHeader == <<"Recent", "activity", "summary:">>

_generate_summary(lines) ==
  LET important_lines == Take(SelectSeq(lines, HasKeyword), IMPORTANT_CAP)
      kept == Take(important_lines, SUMMARY_LINES)
  IN <<SummaryHeader>> \o (IF kept = << >> THEN << << >> >> ELSE kept)

IsTechWord(w) == w \in TechWords

Occurrences(words, w) == Cardinality({ i \in 1..Len(words) : words[i] = w })

FirstIndex(words, w) ==
  CHOOSE i \in 1..Len(words) :
    words[i] = w /\ \A j \in 1..(i - 1) : words[j] # w

\* Counter(words).most_common(n): by count, earliest first among equals.
RECURSIVE most_common(_, _, _)
most_common(words, candidates, n) ==
  IF candidates = {} \/ n = 0 THEN << >>
  ELSE LET w == CHOOSE x \in candidates : \A y \in candidates \ {x} :
                  \/ Occurrences(words, x) > Occurrences(words, y)
                  \/ /\ Occurrences(words, x) = Occurrences(words, y)
                     /\ FirstIndex(words, x) < FirstIndex(words, y)
       IN <<w>> \o most_common(words, candidates \ {w}, n - 1)

_extract_topics(lines) ==
  LET tech_words == SelectSeq(Flatten(lines), IsTechWord)
  IN most_common(tech_words, { tech_words[i] : i \in 1..Len(tech_words) },
                 TOPIC_COUNT)

\* json.loads(tool_calls_json) of every row: the recorded tool calls.
ToolCalls(ordered) ==
  UNION { { ordered[i].tool_calls[k] : k \in 1..Len(ordered[i].tool_calls) } :
          i \in 1..Len(ordered) }

\* isinstance(args, str)
IsStr(args) == args[1] = "json"

\* if isinstance(args, str): args = json.loads(args)
ParsedArgs(args) == IF IsStr(args) THEN args[2] ELSE args[2]

\* args.get('path', '')
PathOf(args) ==
  LET m == ParsedArgs(args) IN IF "path" \in DOMAIN m THEN m.path ELSE ""

\* Mutant: the path of every recorded call is taken, whatever its name.
CreatedFilesOfAnyCall(ordered) ==
  { PathOf(c.function.arguments) : c \in ToolCalls(ordered) }

\* The paths of the write_file calls recorded in the rows:
\* list(set(created_files)).
CreatedFiles(ordered) ==
  { PathOf(c.function.arguments) :
      c \in { d \in ToolCalls(ordered) : d.function.name = "write_file" } }

\* since = datetime.now() - timedelta(...), by period
Since(period, t) ==
  CASE period = "last_hour" -> t - HOUR
    [] period = "last_day" -> t - DAY
    [] period = "last_week" -> t - WEEK
    [] OTHER -> t - DAY

\* WHERE project_path = ? AND timestamp > ?
SummaryRows(rows, project_path, since) ==
  { t \in rows : t.project_path = project_path /\ t.timestamp > since }

\* The summary of the rows taken in the given order.
Summarize(ordered, period) ==
  LET all_text == AllText(ordered)
      summary == _generate_summary(all_text)
      tokens_saved == Len(encode(Flatten(all_text)))
                        - Len(encode(Flatten(summary)))
  IN [period |-> period, summary |-> summary,
      key_topics |-> _extract_topics(all_text),
      important_decisions |-> << >>,
      created_files |-> CreatedFiles(ordered), modified_files |-> {},
      tokens_saved |-> Max(0, tokens_saved)]

\* Mutant: the empty result set is summarized like any other.
NoActivitySummarized(period) == Summarize(<< >>, period)

\* if not conversations: return ContextSummary(... "No recent activity" ...)
NoActivity(period) ==
  [period |-> period, summary |-> << <<"No", "recent", "activity">> >>,
   key_topics |-> << >>, important_decisions |-> << >>,
   created_files |-> {}, modified_files |-> {}, tokens_saved |-> 0]

\* The summaries create_summary can return at time t: one per order of the
\* query's rows.
create_summary(rows, project_path, period, t) ==
  LET conversations_in_period ==
        SummaryRows(rows, project_path, Since(period, t))
  IN IF conversations_in_period = {}
       THEN { NoActivity(period) }
       ELSE { Summarize(ordered, period) :
                ordered \in OrderByTimestampAsc(conversations_in_period) }

\* INSERT INTO context_summaries
SummaryRow(summary, project_path) ==
  [project_path |-> project_path, period |-> summary.period,
   summary |-> summary.summary, key_topics |-> summary.key_topics,
   important_decisions |-> summary.important_decisions,
   created_files |-> summary.created_files,
   modified_files |-> summary.modified_files,
   tokens_saved |-> summary.tokens_saved]

save_summary(table, summary, project_path) ==
  Append(table, SummaryRow(summary, project_path))

\* A caller's create_summary(project_path, period): a read.
CreateSummary(project_path, period) ==
  /\ cl.pc = "idle"
  /\ \E summary \in create_summary(conversations, project_path, period, now) :
       ret' = Returned("create_summary", project_path, summary)
  /\ UNCHANGED <<idxVars, now, conversations, nextId, sessions, context_summaries, cl,
                 purged, crashed>>

\* A caller's save_summary of the summary it has just created.  The INSERT
\* either commits or raises.
SaveSummary ==
  /\ cl.pc = "idle"
  /\ ret.op = "create_summary"
  /\ ret.st = "ok"
  /\ Len(SelectSeq(context_summaries, LAMBDA r : r.period # "archived"))
       < MaxSummaries
  /\ \/ /\ context_summaries' =
             save_summary(context_summaries, ret.val, ret.arg)
        /\ ret' = Returned("save_summary", ret.arg, << >>)
     \/ /\ context_summaries' = context_summaries
        /\ ret' = Raised("save_summary", ret.arg, "OperationalError")
  /\ UNCHANGED <<idxVars, now, conversations, nextId, sessions, cl, purged, crashed>>

\* ---------------------------------------------------------- project stats
Timestamps(rows) == { t.timestamp : t \in rows }

MinOf(S) == IF S = {} THEN << >> ELSE <<CHOOSE x \in S : \A y \in S : x <= y>>
MaxOf(S) == IF S = {} THEN << >> ELSE <<CHOOSE x \in S : \A y \in S : x >= y>>

\* Mutant: the WHERE clause is dropped.
StatsOfAllProjects(rows, project_path) ==
  LET mine == rows IN
  [total_turns |-> Cardinality(mine), total_tokens |-> SumTokensUsed(mine),
   total_cost |-> SumCost(mine),
   first_conversation |-> MinOf(Timestamps(mine)),
   last_conversation |-> MaxOf(Timestamps(mine)),
   total_sessions |-> Cardinality({ t.session_id : t \in mine })]

project_stats(rows, project_path) ==
  LET mine == ProjectRows(rows, project_path) IN
  [total_turns |-> Cardinality(mine), total_tokens |-> SumTokensUsed(mine),
   total_cost |-> SumCost(mine),
   first_conversation |-> MinOf(Timestamps(mine)),
   last_conversation |-> MaxOf(Timestamps(mine)),
   total_sessions |-> Cardinality({ t.session_id : t \in mine })]

get_project_stats(project_path) ==
  /\ cl.pc = "idle"
  /\ ret' = Returned("get_project_stats", project_path,
                     project_stats(conversations, project_path))
  /\ UNCHANGED <<idxVars, now, conversations, nextId, sessions, context_summaries, cl,
                 purged, crashed>>

\* ----------------------------------------------------------------- cleanup
\* cutoff = datetime.now() - timedelta(days=days_to_keep)
Cutoff(t, days_to_keep) == t - days_to_keep * DAY

\* Mutant: the cutoff itself counts as old (<= for <).
IsOldInclusive(t, cutoff) == t.timestamp <= cutoff

\* WHERE timestamp < ?
IsOld(t, cutoff) == t.timestamp < cutoff

\* SELECT DISTINCT project_path FROM conversations WHERE timestamp < ?
OldProjects(rows, cutoff) == { t.project_path : t \in { r \in rows : IsOld(r, cutoff) } }

\* Mutant: the count forgets the project (no project_path = ? in the WHERE).
ArchivedCountAnyProject(table, project_path) ==
  Len(SelectSeq(table, LAMBDA r : r.period = "archived"))

\* SELECT COUNT(*) FROM context_summaries WHERE project_path = ? AND period = 'archived'
ArchivedCount(table, project_path) ==
  Len(SelectSeq(table, LAMBDA r : r.project_path = project_path
                                    /\ r.period = "archived"))

\* Mutant: the summary is written whether or not one exists.
AlwaysNeedsSummary(existing) == existing >= 0

\* if existing == 0:
NeedsSummary(existing) == existing = 0

\* DELETE FROM conversations WHERE timestamp < ?
DeleteOld(rows, cutoff) == { t \in rows : ~IsOld(t, cutoff) }

\* The call starts: the cutoff is fixed and the projects with old turns read.
CleanupStart(days_to_keep) ==
  LET cutoff == Cutoff(now, days_to_keep) IN
  /\ cl.pc = "idle"
  /\ cl' = [pc |-> "summarize", days |-> days_to_keep, cutoff |-> cutoff,
            pending |-> OldProjects(conversations, cutoff), written |-> {}]
  /\ ret' = Running("cleanup_old_conversations", days_to_keep)
  /\ UNCHANGED <<idxVars, now, conversations, nextId, sessions, context_summaries,
                 purged, crashed>>

\* One pass of the loop over the projects with old turns.  save_summary
\* commits on its own connection, or raises and ends the call.
CleanupProject ==
  /\ cl.pc = "summarize"
  /\ \E project_path \in cl.pending :
       IF NeedsSummary(ArchivedCount(context_summaries, project_path))
         THEN \E summary \in create_summary(conversations, project_path,
                                            "archived", now) :
                \/ /\ context_summaries' =
                        save_summary(context_summaries, summary, project_path)
                   /\ cl' = [cl EXCEPT !.pending = @ \ {project_path},
                                       !.written = @ \cup {project_path}]
                   /\ UNCHANGED ret
                \/ /\ context_summaries' = context_summaries
                   /\ cl' = IdleFrame
                   /\ ret' = Raised("cleanup_old_conversations", cl.days,
                                    "OperationalError")
         ELSE /\ cl' = [cl EXCEPT !.pending = @ \ {project_path}]
              /\ UNCHANGED <<context_summaries, ret>>
  /\ UNCHANGED <<idxVars, now, conversations, nextId, sessions, purged, crashed>>

\* The DELETE and its commit, and the return of the number of deleted rows.
CleanupDelete ==
  LET kept == DeleteOld(conversations, cl.cutoff)
      gone == conversations \ kept
  IN
  /\ cl.pc = "summarize"
  /\ cl.pending = {}
  /\ conversations' = kept
  /\ purged' = purged \cup { t.project_path : t \in gone }
  /\ ret' = Returned("cleanup_old_conversations", cl.days, Cardinality(gone))
  /\ cl' = IdleFrame
  /\ UNCHANGED <<idxVars, now, nextId, sessions, context_summaries, crashed>>

\* The process dies inside the call: nothing uncommitted survives.
CleanupCrash ==
  /\ cl.pc = "summarize"
  /\ crashed' = crashed \cup cl.written
  /\ cl' = IdleFrame
  /\ ret' = Killed("cleanup_old_conversations", cl.days)
  /\ UNCHANGED <<idxVars, now, conversations, nextId, sessions, context_summaries,
                 purged>>

\* ============================================================= the index
\* ------------------------------------------------------------- the files
Present(path) == disk[path] # << >>

\* A file is written (created or rewritten) with some modification time.
WriteFile(path, text, mtime) ==
  /\ run.pc = "idle"
  /\ disk' = [disk EXCEPT ![path] = << [mtime |-> mtime, content |-> text] >>]
  /\ disk' # disk
  /\ clean' = FALSE
  /\ ret' = Returned("write", << >>, << >>)
  /\ UNCHANGED <<memVarsButRet, files, chunks, run, EMBED_DB>>

\* A file is removed.
DeleteFile(path) ==
  /\ run.pc = "idle"
  /\ Present(path)
  /\ disk' = [disk EXCEPT ![path] = << >>]
  /\ clean' = FALSE
  /\ ret' = Returned("unlink", << >>, << >>)
  /\ UNCHANGED <<memVarsButRet, files, chunks, run, EMBED_DB>>

\* ------------------------------------------------------------ the chunker
\* Mutant: the sign of the overlap is flipped.
NextStartPlusOverlap(i, size, overlap) == Max(i + size + overlap, i + 1)

\* Mutant: the overlap is ignored.
NextStartIgnoresOverlap(i, size, overlap) == Max(i + size, i + 1)

\* Mutant: the guard that forces progress is missing.
NextStartNoGuard(i, size, overlap) == i + size - overlap

\* i = max(i + size - overlap, i + 1)
NextStart(i, size, overlap) == Max(i + size - overlap, i + 1)

\* j = min(n, i + size); chunk = s[i:j]; the tuple (i, j, chunk)
ChunkAt(s, i, size) ==
  LET j == Min(Len(s), i + size)
  IN [start |-> i, end |-> j, text |-> SubSeq(s, i + 1, j)]

\* The loop of _chunk_text from start i to the end of the text.
RECURSIVE ChunkFrom(_, _, _, _)
ChunkFrom(s, i, size, overlap) ==
  LET chunk == ChunkAt(s, i, size)
  IN IF i >= Len(s) THEN << >>
     ELSE IF chunk.end = Len(s) THEN <<chunk>>
     ELSE <<chunk>> \o ChunkFrom(s, NextStart(i, size, overlap), size, overlap)

\* if size <= 0: return [(0, len(s), s)]
WholeText(s) == << [start |-> 0, end |-> Len(s), text |-> s] >>

_chunk_text(s, size, overlap) ==
  IF size <= 0 THEN WholeText(s) ELSE ChunkFrom(s, 0, size, overlap)

\* The same function one iteration at a time.  The call's frame is held in
\* ret: the arguments, the loop variable i and the chunks so far.
ChunkFrame(s, size, overlap, i, chs) ==
  [op |-> "_chunk_text", arg |-> [s |-> s, size |-> size, overlap |-> overlap],
   st |-> "running", val |-> [i |-> i, chunks |-> chs]]

ChunkCall(s, size, overlap) ==
  /\ ret.st # "running"
  /\ ret' = IF size <= 0
              THEN Returned("_chunk_text",
                            [s |-> s, size |-> size, overlap |-> overlap],
                            WholeText(s))
              ELSE ChunkFrame(s, size, overlap, 0, << >>)
  /\ UNCHANGED <<memVarsButRet, idxVars>>

ChunkIterate ==
  /\ ret.op = "_chunk_text"
  /\ ret.st = "running"
  /\ LET a == ret.arg
         i == ret.val.i
         chunk == ChunkAt(a.s, i, a.size)
         chs == Append(ret.val.chunks, chunk)
     IN ret' = IF i >= Len(a.s)
                 THEN Returned("_chunk_text", a, ret.val.chunks)
               ELSE IF chunk.end = Len(a.s)
                 THEN Returned("_chunk_text", a, chs)
               ELSE ChunkFrame(a.s, a.size, a.overlap,
                               NextStart(i, a.size, a.overlap), chs)
  /\ UNCHANGED <<memVarsButRet, idxVars>>

\* ---------------------------------------------------------- the embedder
\* The vector the embedding service answers for a text, before it is
\* normalized: its direction is decided by the first character and its
\* length is the length of the text.  Every vector lies on one axis.
ServiceVector(text) ==
  IF text = << >> THEN <<0, 0>>
  ELSE IF Head(text) \in {"a", "x"} THEN <<Len(text), 0>>
  ELSE IF Head(text) = "c" THEN <<0, Len(text)>>
  ELSE IF Head(text) = "e" THEN <<0 - Len(text), 0>>
  ELSE <<0, 0 - Len(text)>>

Abs(x) == IF x < 0 THEN 0 - x ELSE x

RECURSIVE SumSeq(_)
SumSeq(v) == IF v = << >> THEN 0 ELSE Head(v) + SumSeq(Tail(v))

\* s = sum(x*x) ** 0.5, which for a vector on one axis is the sum of the
\* absolute values; the zero vector is returned as it is.
_l2_normalize(v) ==
  LET n == SumSeq([k \in 1..Len(v) |-> Abs(v[k])])
  IN IF n = 0 THEN v ELSE [k \in 1..Len(v) |-> v[k] \div n]

\* sum(a[i]*b[i] for i in range(min(len(a), len(b))))
_dot(a, b) == SumSeq([k \in 1..Min(Len(a), Len(b)) |-> a[k] * b[k]])

Embedding(text) == _l2_normalize(ServiceVector(text))

\* _embed_batch on a call that succeeds: one vector per text, in order.
_embed_batch(texts) == [k \in 1..Len(texts) |-> Embedding(texts[k])]

\* The batching loop of run_init_index from chunk idx on.  requests lists
\* the sizes of the batches sent to _embed_batch so far for the file; the
\* calls numbered in failing return [].  A full batch that fails is kept
\* (continue) and grows with the next chunk.
RECURSIVE EmbedLoop(_, _, _, _, _, _)
EmbedLoop(chs, idx, batch, embeds, requests, failing) ==
  LET call == Len(requests) + 1 IN
  IF idx > Len(chs)
    THEN IF batch = << >>
           THEN [embeds |-> embeds, requests |-> requests]
           ELSE [embeds |-> IF call \in failing THEN embeds
                            ELSE embeds \o _embed_batch(batch),
                 requests |-> Append(requests, Len(batch))]
    ELSE LET grown == Append(batch, chs[idx].text) IN
         IF Len(grown) >= EMBED_BATCH
           THEN IF call \in failing
                  THEN EmbedLoop(chs, idx + 1, grown, embeds,
                                 Append(requests, Len(grown)), failing)
                  ELSE EmbedLoop(chs, idx + 1, << >>,
                                 embeds \o _embed_batch(grown),
                                 Append(requests, Len(grown)), failing)
           ELSE EmbedLoop(chs, idx + 1, grown, embeds, requests, failing)

\* The most calls of _embed_batch the loop can make for n chunks: one for
\* each chunk from the one that first fills a batch on, and the last one
\* for what is left.
MaxCalls(n) == Max(1, n - EMBED_BATCH + 2)

\* ------------------------------------------------------------ the tables
_sha256_bytes(b) == <<"sha256", b>>

\* SELECT id, mtime, size, sha256 FROM files WHERE path = ?
_file_row(table, path) == { r \in table : r.path = path }

\* Mutant: the stored size is compared with the modification time.
SameFingerprintSizeAsMtime(row, mtime, size, sha) ==
  row.mtime = mtime /\ row.size = mtime /\ row.sha256 = sha

\* Mutant: the modification time is left out of the comparison.
SameFingerprintIgnoresMtime(row, mtime, size, sha) ==
  row.size = size /\ row.sha256 = sha

\* int(st.st_mtime) == int(mtime_old) and st.st_size == size_old and sha_old == sha
SameFingerprint(row, mtime, size, sha) ==
  row.mtime = mtime /\ row.size = size /\ row.sha256 = sha

\* INSERT INTO files ... ON CONFLICT(path) DO UPDATE; the row keeps its id.
_upsert_file(table, path, mtime, size, sha) ==
  IF _file_row(table, path) = {}
    THEN table \cup { [id |-> Cardinality(table) + 1, path |-> path,
                       mtime |-> mtime, size |-> size, sha256 |-> sha] }
    ELSE { IF r.path = path
             THEN [r EXCEPT !.mtime = mtime, !.size = size, !.sha256 = sha]
             ELSE r : r \in table }

FileId(table, path) == (CHOOSE r \in table : r.path = path).id

\* Mutant: the old rows are not deleted.
KeepsChunks(rows, file_id) == rows

\* DELETE FROM chunks WHERE file_id = ?
\* Mutant: the DELETE has no WHERE clause.
DeletesEveryChunk(rows, file_id) == << >>

_delete_chunks_for_file(rows, file_id) ==
  SelectSeq(rows, LAMBDA r : r.file_id # file_id)

\* json.dumps / json.loads of a vector.
dumps(v) == <<"json", v>>
loads(j) == j[2]

\* Mutant: the assertion is not evaluated.
AssertRemoved(chs, embs) == TRUE

\* assert len(chs) == len(embs)
AssertSameLength(chs, embs) == Len(chs) = Len(embs)

\* Mutant: enumerate(..., start=1).
InsertChunksFromOne(rows, file_id, chs, embs) ==
  rows \o [k \in 1..Min(Len(chs), Len(embs)) |->
             [file_id |-> file_id, ord |-> k, start |-> chs[k].start,
              end |-> chs[k].end, text |-> chs[k].text,
              embedding |-> dumps(embs[k])]]

\* INSERT INTO chunks, one row per pair of zip(chs, embs).
_insert_chunks(rows, file_id, chs, embs) ==
  rows \o [k \in 1..Min(Len(chs), Len(embs)) |->
             [file_id |-> file_id, ord |-> k - 1, start |-> chs[k].start,
              end |-> chs[k].end, text |-> chs[k].text,
              embedding |-> dumps(embs[k])]]

\* ------------------------------------------------------------ the rebuild
\* _indexable_files(): the files present, in the order os.walk yields them.
RECURSIVE Orders(_)
Orders(S) ==
  IF S = {} THEN { << >> }
  ELSE UNION { { <<x>> \o rest : rest \in Orders(S \ {x}) } : x \in S }

\* os.walk(WORKDIR), in any order, without the files larger than
\* EMBED_MAX_FILE_BYTES.
_indexable_files ==
  Orders({ p \in Paths :
             Present(p) /\ Len(disk[p][1].content) <= EMBED_MAX_FILE_BYTES })

RunStart ==
  /\ run.pc = "idle"
  /\ \E todo \in _indexable_files :
       run' = [IdleRun EXCEPT !.pc = "files", !.todo = todo,
                 !.enumerated = { todo[k] : k \in 1..Len(todo) }]
  /\ EMBED_DB' = TRUE
  /\ ret' = Running("run_init_index", << >>)
  /\ UNCHANGED <<memVarsButRet, disk, files, chunks, clean>>

\* need: no stored record, or a fingerprint that differs.
NeedsIndex(table, path, mtime, size, sha) ==
  \A row \in _file_row(table, path) : ~SameFingerprint(row, mtime, size, sha)

\* What the pass over one file did: whether the file was chunked, the
\* sizes of the batches sent to the embedder, the number of vectors
\* obtained, whether the transaction raised and whether it committed.
Pass(fp, chunked, requests, vectors, raised, wrote) ==
  [path |-> fp, chunked |-> chunked, requests |-> requests,
   vectors |-> vectors, raised |-> raised, wrote |-> wrote]

\* Mutant: a file that fails ends the loop over the files.
SkipAborts(pass) == run' = [run EXCEPT !.todo = << >>, !.last = pass]

\* continue: on to the next file.
Skip(pass) == run' = [run EXCEPT !.todo = Tail(@), !.last = pass]

\* One pass of the loop over the files: the fingerprint check, the chunking,
\* the embedding of the batches (any of which may fail) and the
\* transaction that replaces the file's record and chunks.
RunFile ==
  /\ run.pc = "files"
  /\ run.todo # << >>
  /\ LET fp == Head(run.todo)
         st == disk[fp][1]
         b == st.content
         sha == _sha256_bytes(b)
         size == Len(b)
         chs == _chunk_text(b, CHUNK_SIZE, CHUNK_OVERLAP)
     IN IF ~NeedsIndex(files, fp, st.mtime, size, sha)
          THEN \* need is False
               /\ Skip(Pass(fp, FALSE, << >>, 0, FALSE, FALSE))
               /\ UNCHANGED <<files, chunks>>
        ELSE IF chs = << >>
          THEN \* the file has no chunk
               /\ Skip(Pass(fp, TRUE, << >>, 0, FALSE, FALSE))
               /\ UNCHANGED <<files, chunks>>
          ELSE \E failing \in SUBSET (1..MaxCalls(Len(chs))), insert_fails \in BOOLEAN :
                 LET loop == EmbedLoop(chs, 1, << >>, << >>, << >>, failing)
                     embeds == loop.embeds
                     upserted == _upsert_file(files, fp, st.mtime, size, sha)
                     file_id == FileId(upserted, fp)
                 IN IF embeds = << >>
                      THEN \* no_embeddings_generated
                           /\ ~insert_fails
                           /\ Skip(Pass(fp, TRUE, loop.requests, 0, FALSE, FALSE))
                           /\ UNCHANGED <<files, chunks>>
                      ELSE IF ~AssertSameLength(chs, embeds) \/ insert_fails
                        THEN \* the assert or the INSERT raises: rollback
                             /\ Skip(Pass(fp, TRUE, loop.requests, Len(embeds),
                                          TRUE, FALSE))
                             /\ UNCHANGED <<files, chunks>>
                        ELSE /\ files' = upserted
                             /\ chunks' = _insert_chunks(
                                            _delete_chunks_for_file(chunks, file_id),
                                            file_id, chs, embeds)
                             /\ run' = [run EXCEPT
                                          !.todo = Tail(@),
                                          !.indexed_files = @ + 1,
                                          !.indexed_chunks = @ + Len(chs),
                                          !.committed = @ \cup {fp},
                                          !.last = Pass(fp, TRUE, loop.requests,
                                                        Len(embeds), FALSE, TRUE)]
  /\ UNCHANGED <<memVars, disk, clean, EMBED_DB>>

\* The loop is over: the counts are returned.
RunEnd ==
  /\ run.pc = "files"
  /\ run.todo = << >>
  /\ ret' = Returned("run_init_index", << >>,
                     [files_indexed |-> run.indexed_files,
                      chunks_indexed |-> run.indexed_chunks])
  /\ clean' = IF run.committed = run.enumerated /\ run.enumerated # {}
                THEN TRUE ELSE clean
  /\ run' = IdleRun
  /\ UNCHANGED <<memVarsButRet, disk, files, chunks, EMBED_DB>>

\* ---------------------------------------------------------- the retrieval
\* The queries asked of the index.
Queries == { <<"a">>, <<"c", "c">> }

\* Mutant: the index is taken to exist.
HaveIndexAlways == TRUE

\* EMBED_DB.exists() and EMBED_DB.stat().st_size > 0
_have_index == EMBED_DB

\* SELECT files.path, chunks.text, chunks.embedding FROM chunks JOIN files
Joined ==
  LET rows == SelectSeq(chunks, LAMBDA c : \E f \in files : f.id = c.file_id)
  IN [k \in 1..Len(rows) |->
        [path |-> (CHOOSE f \in files : f.id = rows[k].file_id).path,
         text |-> rows[k].text, embedding |-> rows[k].embedding]]

\* The scored list: the dot product of the query vector and each stored one.
Scored(vec, rows) ==
  [k \in 1..Len(rows) |->
     [score |-> _dot(vec, loads(rows[k].embedding)),
      path |-> rows[k].path, text |-> rows[k].text]]

\* scored.sort(key=lambda x: x[0], reverse=True): a stable sort, so equal
\* scores keep the order in which they were fetched.
RECURSIVE SortByScoreDesc(_)
SortByScoreDesc(scored) ==
  IF scored = << >> THEN << >>
  ELSE LET n == Len(scored)
           x == scored[n]
           sorted == SortByScoreDesc(SubSeq(scored, 1, n - 1))
           ahead == Cardinality({ k \in 1..Len(sorted) : sorted[k].score >= x.score })
       IN SubSeq(sorted, 1, ahead) \o <<x>> \o SubSeq(sorted, ahead + 1, Len(sorted))

\* scored[:max(1, top_k)], each text cut to RAG_MAX_CHUNK_CHARS.
TopK(sorted, top_k) ==
  LET head == Take(sorted, Max(1, top_k))
  IN [k \in 1..Len(head) |->
        [score |-> head[k].score, path |-> head[k].path,
         text |-> Take(head[k].text, RAG_MAX_CHUNK_CHARS)]]

\* _retrieve_context(query, top_k) in a process started with RAG_ENABLE =
\* rag_enable; embed_fails says whether _embed_batch([query]) returns [].
\* opened tells whether the call opened the database.
_retrieve_context(query, top_k, rag_enable, embed_fails) ==
  /\ run.pc = "idle"
  /\ LET call == [query |-> query, top_k |-> top_k, rag_enable |-> rag_enable,
                  embed_fails |-> embed_fails]
         embeddings == IF embed_fails THEN << >> ELSE _embed_batch(<<query>>)
     IN IF ~rag_enable \/ ~_have_index
          THEN /\ ret' = Returned("_retrieve_context", call,
                                  [results |-> << >>, opened |-> FALSE])
               /\ UNCHANGED EMBED_DB
        ELSE IF embeddings = << >>
          THEN /\ ret' = Returned("_retrieve_context", call,
                                  [results |-> << >>, opened |-> FALSE])
               /\ UNCHANGED EMBED_DB
          ELSE /\ ret' = Returned("_retrieve_context", call,
                           [results |-> TopK(SortByScoreDesc(
                                           Scored(embeddings[1], Joined)), top_k),
                            opened |-> TRUE])
               /\ EMBED_DB' = TRUE
  /\ UNCHANGED <<memVarsButRet, disk, files, chunks, run, clean>>

\* -------------------------------------------------------------- the retry
\* The messages of the exceptions the wrapped call raises, word by word.
RateLimit == <<"Rate", "limit", "reached">>
Code429 == <<"Error", "code:", "429">>
Timeout == <<"Request", "timeout">>
Bare429 == <<"429", "too", "many", "requests">>
InvalidKey == <<"invalid", "api", "key">>
Errors == {RateLimit, Code429, Timeout, Bare429, InvalidKey}

\* str(e).lower()
lower(msg) ==
  [k \in 1..Len(msg) |->
     CASE msg[k] = "Rate" -> "rate"
       [] msg[k] = "Error" -> "error"
       [] msg[k] = "Request" -> "request"
       [] OTHER -> msg[k]]

\* s in msg, for a marker s made of whole words.
Contains(msg, marker) ==
  \E k \in 1..(Len(msg) - Len(marker) + 1) :
     SubSeq(msg, k, k + Len(marker) - 1) = marker

\* The markers that are words or runs of words, and the status codes,
\* which are searched with a space in front (" 429").
WordMarkers ==
  { <<"rate", "limit">>, <<"rate_limit_exceeded">>, <<"timeout">>,
    <<"temporarily", "unavailable">>, <<"service", "unavailable">>,
    <<"internal", "server", "error">> }
CodeMarkers == {"429", "500", "502", "503", "504"}

\* _is_retriable_error(e): the first component of the result.
_is_retriable_error(e) ==
  LET msg == lower(e)
  IN \/ \E marker \in WordMarkers : Contains(msg, marker)
     \/ \E k \in 2..Len(msg) : msg[k] \in CodeMarkers

\* Mutant: only the attempt limit ends the loop.
RaisesOnlyAtLimit(retriable, attempt) == attempt >= MAX_ATTEMPTS

\* Mutant: the attempt ceiling is not checked.
RaisesOnlyPermanent(retriable, attempt) == ~retriable

\* if not retriable or attempt >= max_attempts: raise
Reraise(retriable, attempt) == ~retriable \/ attempt >= MAX_ATTEMPTS

\* The values the wrapped call returns.
Results == {"r1", "r2"}

\* The frame of a with_retry call, held in ret: the attempt counter, the
\* calls of the wrapped operation and the sleeps so far, the messages of
\* the failures so far, and how the call ended: the value returned or the
\* exception raised to the caller.
RetryFrame(st, attempt, calls, sleeps, failures, outcome) ==
  [op |-> "with_retry", arg |-> << >>, st |-> st,
   val |-> [attempt |-> attempt, calls |-> calls, sleeps |-> sleeps,
            failures |-> failures, outcome |-> outcome]]

with_retry ==
  /\ ret.st # "running"
  /\ ret' = RetryFrame("running", 0, 0, 0, << >>, << >>)
  /\ UNCHANGED <<memVarsButRet, idxVars>>

\* attempt += 1; return call(*args, **kwargs)
CallReturns(v) ==
  /\ ret.op = "with_retry"
  /\ ret.st = "running"
  /\ ret' = RetryFrame("ok", ret.val.attempt + 1, ret.val.calls + 1,
                       ret.val.sleeps, ret.val.failures, <<"returned", v>>)
  /\ UNCHANGED <<memVarsButRet, idxVars>>

\* attempt += 1; the call raises e: raise it, or sleep and go round again.
CallRaises(e) ==
  /\ ret.op = "with_retry"
  /\ ret.st = "running"
  /\ LET attempt == ret.val.attempt + 1
         failures == Append(ret.val.failures, e)
     IN ret' = IF Reraise(_is_retriable_error(e), attempt)
                 THEN RetryFrame("error", attempt, ret.val.calls + 1,
                                 ret.val.sleeps, failures, <<"raised", e>>)
                 ELSE RetryFrame("running", attempt, ret.val.calls + 1,
                                 ret.val.sleeps + 1, failures, << >>)
  /\ UNCHANGED <<memVarsButRet, idxVars>>

\* ---------------------------------------------------------- the file tools
\* A path is absolute or relative and has a sequence of components; a
\* component is a sequence of characters.  The process runs with
\* WORKDIR=/w, and the tree has no symbolic links.
WORKDIR == [absolute |-> TRUE, parts |-> << <<"w">> >>]

DotDot == <<".", ".">>
Names == { <<"w">>, <<"w", "2">>, <<"e">> }

RECURSIVE SeqsUpTo(_, _)
SeqsUpTo(S, n) ==
  IF n = 0 THEN { << >> }
  ELSE LET shorter == SeqsUpTo(S, n - 1)
       IN shorter \cup { Append(q, x) : q \in shorter, x \in S }

\* The paths handed to the file tools.
InputPaths ==
  [absolute : BOOLEAN, parts : SeqsUpTo(Names \cup {DotDot}, MaxLen)]

is_absolute(p) == p.absolute

\* WORKDIR / p
JoinPath(base, p) == [absolute |-> TRUE, parts |-> base.parts \o p.parts]

\* Path.resolve(): '..' steps to the parent, and the parent of / is /.
RECURSIVE ResolveParts(_, _)
ResolveParts(parts, acc) ==
  IF parts = << >> THEN acc
  ELSE IF Head(parts) = DotDot
    THEN ResolveParts(Tail(parts),
                      IF acc = << >> THEN acc ELSE SubSeq(acc, 1, Len(acc) - 1))
    ELSE ResolveParts(Tail(parts), Append(acc, Head(parts)))

resolve(p) == [absolute |-> TRUE, parts |-> ResolveParts(p.parts, << >>)]

\* str(p) of an absolute path: the characters of /a/b, and / for the root.
RECURSIVE StrParts(_)
StrParts(parts) ==
  IF parts = << >> THEN << >>
  ELSE <<"/">> \o Head(parts) \o StrParts(Tail(parts))

str(p) == IF p.parts = << >> THEN <<"/">> ELSE StrParts(p.parts)

\* s.startswith(prefix)
startswith(s, prefix) ==
  /\ Len(prefix) <= Len(s)
  /\ SubSeq(s, 1, Len(prefix)) = prefix

\* (WORKDIR / p).resolve() if not p.is_absolute() else p.resolve()
Resolved(path) ==
  IF ~is_absolute(path) THEN resolve(JoinPath(WORKDIR, path)) ELSE resolve(path)

\* not str(p).startswith(str(WORKDIR))
Refused(p) == ~startswith(str(p), str(WORKDIR))

within_workdir(path) ==
  /\ LET p == Resolved(path)
     IN ret' = IF Refused(p)
                 THEN Raised("within_workdir", path, "PermissionError")
                 ELSE Returned("within_workdir", path, p)
  /\ UNCHANGED <<memVarsButRet, idxVars>>

\* The contents written by the tool: 'v1' and 'v2'.
Contents == { <<"v", "1">>, <<"v", "2">> }

\* p.exists()
exists(tree, p) == p \in DOMAIN tree /\ tree[p] # << >>

\* datetime.now().strftime("%Y%m%d-%H%M%S"): calls at the same clock
\* reading get the same stamp.
strftime(t) == ToString(t)

\* p.with_suffix(p.suffix + f".{ts}.bak")
BackupPath(p, ts) == p \o "." \o ts \o ".bak"

\* Mutant: the copy is not made.
CopiesNothing(tree, src, dst) == tree

\* shutil.copy2(src, dst): dst is created or overwritten with the content
\* and the modification time of src.
copy2(tree, src, dst) ==
  [q \in DOMAIN tree \cup {dst} |-> IF q = dst THEN tree[src] ELSE tree[q]]

\* p.write_text(content)
write_text(tree, p, content, t) ==
  [tree EXCEPT ![p] = << [mtime |-> t, content |-> content] >>]

\* write_file(path, content) for a path that within_workdir lets through.
write_file(path, content) ==
  /\ run.pc = "idle"
  /\ LET backup == BackupPath(path, strftime(now))
         saved == IF exists(disk, path) THEN copy2(disk, path, backup) ELSE disk
         backup_str == IF exists(disk, path) THEN backup ELSE ""
     IN /\ disk' = write_text(saved, path, content, now)
        /\ ret' = Returned("write_file", [path |-> path, content |-> content],
                           [path |-> path, backup |-> backup_str,
                            written |-> Len(content)])
  /\ clean' = FALSE
  /\ UNCHANGED <<memVarsButRet, files, chunks, run, EMBED_DB>>

\* The files read by the tool, as bytes: an empty file, 'abcdef', and 'a'
\* followed by the two bytes of a two-byte character and 'b'.
FileBytes ==
  { << >>, <<"a", "b", "c", "d", "e", "f">>, <<"a", "c3", "a9", "b">> }

\* The start and size arguments; << >> stands for a size that is not given.
Starts == (-1)..(MaxSize + 2)
SizeArgs == { << >> } \cup { <<n>> : n \in Sizes }

\* size or DEFAULT_MAX_BYTES
OrDefault(size) ==
  IF size = << >> \/ size[1] = 0 THEN DEFAULT_MAX_BYTES ELSE size[1]

\* f.seek(pos); f.read(n)
SeekRead(bytes, pos, n) ==
  IF pos >= Len(bytes) THEN << >>
  ELSE SubSeq(bytes, pos + 1, Min(Len(bytes), pos + n))

\* chunk.decode("utf-8"), and with errors="replace" when that raises: the
\* two bytes of the character give one character, either of them alone
\* gives the replacement character.
RECURSIVE decode(_)
decode(chunk) ==
  IF chunk = << >> THEN << >>
  ELSE IF Len(chunk) >= 2 /\ chunk[1] = "c3" /\ chunk[2] = "a9"
    THEN <<"e'">> \o decode(SubSeq(chunk, 3, Len(chunk)))
  ELSE IF chunk[1] \in {"c3", "a9"}
    THEN <<"?">> \o decode(Tail(chunk))
    ELSE <<chunk[1]>> \o decode(Tail(chunk))

\* read_file_range(path, start, size) for a path that within_workdir lets
\* through; file is << >> when the path does not exist and <<bytes>> when
\* it holds bytes.
read_file_range(file, start, size) ==
  /\ LET call == [file |-> file, start |-> start, size |-> size] IN
     IF file = << >>
       THEN ret' = Returned("read_file_range", call, [error |-> "Brak pliku"])
       ELSE LET capped == Min(OrDefault(size), DEFAULT_MAX_BYTES)
                chunk == SeekRead(file[1], Max(0, start), Max(0, capped))
                file_size == Len(file[1])
                next_start == Min(file_size, start + Len(chunk))
            IN ret' = Returned("read_file_range", call,
                        [start |-> start, size |-> Len(chunk),
                         next_start |-> next_start, file_size |-> file_size,
                         content |-> decode(chunk)])
  /\ UNCHANGED <<memVarsButRet, idxVars>>

\* The files searched by the tool, as lines of words: an empty file, the
\* test's 'x', 'y', 'pattern', and a file of two matching lines, the first
\* of them indented.
SearchFiles ==
  { << >>, << <<"x">>, <<"y">>, <<"pattern">> >>,
    << <<" ", "pattern">>, <<"pattern">> >> }

SearchNames == {"f0.txt", "f1.txt"}

\* os.walk(base): the files with their lines, in any order.
Walks ==
  { [k \in 1..2 |-> [name |-> order[k], lines |-> tree[order[k]]]] :
      order \in Orders(SearchNames), tree \in [SearchNames -> SearchFiles] }

RECURSIVE LStrip(_)
LStrip(line) ==
  IF line # << >> /\ Head(line) = " " THEN LStrip(Tail(line)) ELSE line

\* line.strip()
strip(line) == Reverse(LStrip(Reverse(LStrip(line))))

\* Mutant: the scan stops one match later.
ReachedBeyond(count, max_results) == count > max_results

\* len(results) >= max_results
Reached(count, max_results) == count >= max_results

\* search_text one line at a time.  The call's frame is held in ret: the
\* arguments, the file and the line the scan is at, and the results so far.
SearchFrame(call, st, i, j, results, truncated) ==
  [op |-> "search_text", arg |-> call, st |-> st,
   val |-> [i |-> i, j |-> j, results |-> results, truncated |-> truncated]]

\* search_text(pattern, path, regex=False, max_results) over the files
\* that os.walk lists under the path.
search_text(walk, pattern, max_results) ==
  /\ ret.st # "running"
  /\ ret' = SearchFrame([walk |-> walk, pattern |-> pattern,
                         max_results |-> max_results],
                        "running", 1, 0, << >>, FALSE)
  /\ UNCHANGED <<memVarsButRet, idxVars>>

SearchLine ==
  /\ ret.op = "search_text"
  /\ ret.st = "running"
  /\ LET a == ret.arg
         i == ret.val.i
         j == ret.val.j
         results == ret.val.results
     IN IF i > Len(a.walk)
          THEN ret' = SearchFrame(a, "ok", i, j, results, FALSE)
        ELSE IF j >= Len(a.walk[i].lines)
          THEN ret' = SearchFrame(a, "running", i + 1, 0, results, FALSE)
        ELSE LET line == a.walk[i].lines[j + 1]
                 hit == Contains(line, a.pattern)
                 found == IF hit
                            THEN Append(results,
                                   [file |-> a.walk[i].name, line |-> j + 1,
                                    text |-> strip(line)])
                            ELSE results
             IN ret' = IF hit /\ Reached(Len(found), a.max_results)
                         THEN SearchFrame(a, "ok", i, j + 1, found, TRUE)
                         ELSE SearchFrame(a, "running", i, j + 1, found, FALSE)
  /\ UNCHANGED <<memVarsButRet, idxVars>>

\* ------------------------------------------------------------- the chat
\* A message of the conversation.  n stands for its content: the n-th
\* message written by the loop.  tool_calls lists the ids of the calls an
\* assistant message asks for, tool_call_id is the call a tool message
\* answers (0 for the other roles).
Message(role, n, tool_call_id, tool_calls) ==
  [role |-> role, n |-> n, tool_call_id |-> tool_call_id,
   tool_calls |-> tool_calls]

\* messages[-n:]
LastOf(messages, n) ==
  IF n = 0 THEN messages
  ELSE SubSeq(messages, Max(1, Len(messages) - n + 1), Len(messages))

\* Mutant: the system message kept is the last one.
LastSystem(messages) ==
  LastOf(SelectSeq(messages, LAMBDA m : m.role = "system"), 1)

\* [m for m in messages if m.get("role") == "system"][:1]
FirstSystem(messages) ==
  Take(SelectSeq(messages, LAMBDA m : m.role = "system"), 1)

_trim_history(messages) ==
  IF Len(messages) <= MAX_HISTORY_MSGS + 1
    THEN messages
    ELSE FirstSystem(messages)
           \o LastOf(SelectSeq(messages, LAMBDA m : m.role # "system"),
                     MAX_HISTORY_MSGS)

\* The frame of chat_loop: the history, the list last handed to
\* _trim_history, the list last sent to the model, the tool calls of the
\* model's last answer, and the counters of messages, call ids and requests.
ChatFrame(pc, messages, before, sent, tool_calls, n, id, sends) ==
  [op |-> "chat_loop", arg |-> << >>, st |-> "running",
   val |-> [pc |-> pc, messages |-> messages, before |-> before,
            sent |-> sent, tool_calls |-> tool_calls, n |-> n, id |-> id,
            sends |-> sends]]

Chatting == ret.op = "chat_loop" /\ ret.st = "running"

\* chat_loop up to its first prompt: the history is the system prompt.
ChatStart ==
  /\ ret.op # "chat_loop"
  /\ ret' = ChatFrame("input", << Message("system", 1, 0, << >>) >>,
                      << >>, << >>, << >>, 1, 1, 0)
  /\ UNCHANGED <<memVarsButRet, idxVars>>

\* messages = _trim_history(messages); resp = chat_once(messages): the
\* answer asks for calls tool calls, with fresh ids, or chat_once raises
\* and ends chat_loop.
SendTrimmed(history, n, calls, raises) ==
  LET f == ret.val
      trimmed == _trim_history(history)
  IN ret' = IF raises
              THEN Raised("chat_loop", << >>, "Exception")
              ELSE ChatFrame("answer", trimmed, history, trimmed,
                             [k \in 1..calls |-> f.id + k - 1],
                             n, f.id + calls, f.sends + 1)

\* One line of input: the user message, the retrieved context as a system
\* message when there is one, and the first request of the turn.
UserTurn(rag, calls, raises) ==
  /\ Chatting
  /\ ret.val.pc = "input"
  /\ ret.val.sends < MaxSends
  /\ LET f == ret.val
         asked == Append(f.messages, Message("user", f.n + 1, 0, << >>))
         history == IF rag
                      THEN Append(asked, Message("system", f.n + 2, 0, << >>))
                      ELSE asked
     IN SendTrimmed(history, f.n + Len(history) - Len(f.messages), calls, raises)
  /\ UNCHANGED <<memVarsButRet, idxVars>>

\* A round of tool calls: the assistant message with its tool_calls, one
\* tool message per call with the result of dispatch_tool, and the next
\* request.  What the tools do to the files is left to the tools' own
\* specifications.
ToolRound(calls, raises) ==
  /\ Chatting
  /\ ret.val.pc = "answer"
  /\ ret.val.tool_calls # << >>
  /\ ret.val.sends < MaxSends
  /\ LET f == ret.val
         asked == Append(f.messages,
                         Message("assistant", f.n + 1, 0, f.tool_calls))
         history == asked \o [k \in 1..Len(f.tool_calls) |->
                                Message("tool", f.n + 1 + k, f.tool_calls[k],
                                        << >>)]
     IN SendTrimmed(history, f.n + 1 + Len(f.tool_calls), calls, raises)
  /\ UNCHANGED <<memVarsButRet, idxVars>>

\* The final answer of the turn.  With USE_STREAM the history is sent once
\* more, as it is, to stream the answer.
FinalAnswer(USE_STREAM) ==
  /\ Chatting
  /\ ret.val.pc = "answer"
  /\ ret.val.tool_calls = << >>
  /\ LET f == ret.val IN
     ret' = ChatFrame("input",
                      Append(f.messages, Message("assistant", f.n + 1, 0, << >>)),
                      f.before,
                      IF USE_STREAM THEN f.messages ELSE f.sent,
                      << >>, f.n + 1, f.id, f.sends)
  /\ UNCHANGED <<memVarsButRet, idxVars>>

\* :q, or the end of the input.
ChatQuit ==
  /\ Chatting
  /\ ret.val.pc = "input"
  /\ ret' = Returned("chat_loop", << >>, ret.val)
  /\ UNCHANGED <<memVarsButRet, idxVars>>

\* --------------------------------------------------------- the dispatch
\* The names dispatch_tool is called with: the six tools and a name that
\* is none of them.
ToolNames == {"list_dir", "read_file", "read_file_range", "write_file",
              "list_tree", "search_text"}
CalledNames == ToolNames \cup {"delete_file"}

\* The keywords of the arguments a call is made with; "bogus" is a keyword
\* no tool has.
ArgumentKeys ==
  { {}, {"path"}, {"path", "content"}, {"path", "pattern"}, {"path", "bogus"} }

\* The keywords each tool accepts and those it has no default for.
Accepted(name) ==
  CASE name = "list_dir" -> {"path"}
    [] name = "read_file" -> {"path", "max_bytes"}
    [] name = "read_file_range" -> {"path", "start", "size"}
    [] name = "write_file" -> {"path", "content", "create_dirs"}
    [] name = "list_tree" -> {"root", "max_depth", "include_files"}
    [] name = "search_text" -> {"pattern", "path", "regex", "max_results"}

Required(name) ==
  CASE name = "list_dir" -> {}
    [] name = "read_file" -> {"path"}
    [] name = "read_file_range" -> {"path"}
    [] name = "write_file" -> {"path", "content"}
    [] name = "list_tree" -> {}
    [] name = "search_text" -> {"pattern"}

\* tool(**args) raises TypeError before the body runs.
BadArguments(name, keys) ==
  ~(keys \subseteq Accepted(name)) \/ ~(Required(name) \subseteq keys)

\* The paths in the arguments, and the path a tool works on: the "path"
\* argument, or "." when it is not given.
ToolPaths ==
  { [absolute |-> FALSE, parts |-> << <<"e">> >>],
    [absolute |-> TRUE, parts |-> << <<"w">>, <<"e">> >>],
    [absolute |-> TRUE, parts |-> << <<"w">> >>],
    [absolute |-> TRUE, parts |-> << <<"e">> >>],
    [absolute |-> FALSE, parts |-> << DotDot, <<"e">> >>],
    [absolute |-> TRUE, parts |-> << <<"w", "2">> >>],
    [absolute |-> FALSE, parts |-> << DotDot, <<"w", "2">>, <<"e">> >>] }
Dot == [absolute |-> FALSE, parts |-> << >>]
PathArgument(keys, path) == IF "path" \in keys THEN path ELSE Dot

\* p.with_suffix(p.suffix + ".<timestamp>.bak")
BackupOf(p) ==
  [p EXCEPT !.parts[Len(p.parts)] = @ \o <<".", "b", "a", "k">>]

\* What a call has done: whether the mapping returned has an 'error'
\* entry, and the files and directories it has read and written.
Outcome(error, read, written) ==
  [error |-> error, read |-> read, written |-> written]

\* The body of a tool on the path p that within_workdir returned.  present
\* says whether p exists, fails whether the file system raises an OSError
\* on the tool's last access.
ToolBody(name, p, present, fails) ==
  CASE name \in {"read_file", "read_file_range"} ->
         IF ~present THEN Outcome(TRUE, {}, {})
         ELSE IF fails THEN Outcome(TRUE, {}, {})
         ELSE Outcome(FALSE, {p}, {})
    [] name = "write_file" ->
         IF p.parts = << >> THEN Outcome(TRUE, {}, {})
         ELSE IF present
           THEN IF fails THEN Outcome(TRUE, {p}, {BackupOf(p)})
                ELSE Outcome(FALSE, {p}, {BackupOf(p), p})
           ELSE IF fails THEN Outcome(TRUE, {}, {})
                ELSE Outcome(FALSE, {}, {p})
    [] name = "list_dir" ->
         IF ~present \/ fails THEN Outcome(TRUE, {}, {})
         ELSE Outcome(FALSE, {p}, {})
    [] name \in {"list_tree", "search_text"} ->
         IF ~present \/ fails THEN Outcome(FALSE, {}, {})
         ELSE Outcome(FALSE, {p}, {})

\* The try block of dispatch_tool: the tool named is called with the
\* arguments, an unknown name gives the 'error' mapping, and every
\* Exception raised on the way is turned into one.
Dispatch(name, keys, path, present, fails) ==
  IF name \notin ToolNames THEN Outcome(TRUE, {}, {})
  ELSE IF BadArguments(name, keys) THEN Outcome(TRUE, {}, {})
  ELSE LET p == Resolved(PathArgument(keys, path)) IN
       IF Refused(p) THEN Outcome(TRUE, {}, {})
       ELSE ToolBody(name, p, present, fails)

dispatch_tool(name, keys, path, present, fails) ==
  /\ ret' = Returned("dispatch_tool",
                     [name |-> name, keys |-> keys, path |-> path,
                      present |-> present, fails |-> fails],
                     Dispatch(name, keys, path, present, fails))
  /\ UNCHANGED <<memVarsButRet, idxVars>>

\* ------------------------------------------------------- specifications
\* Every operation of the store, on one project.
Next ==
  \/ Tick
  \/ start_session("p1")
  \/ \E sid \in SessionIds \cup {NoSession} : end_session(sid)
  \/ \E e \in Exchanges, sid \in SessionIds \cup {NoSession} :
       save_conversation_turn(Turn(e, "p1", sid, now))
  \/ get_recent_context("p1", MaxTokens)
  \/ CreateSummary("p1", "last_day")
  \/ SaveSummary
  \/ get_project_stats("p1")
  \/ \E d \in 0..MaxKeep : CleanupStart(d)
  \/ CleanupProject
  \/ CleanupDelete
  \/ CleanupCrash

Spec == Init /\ [][Next]_vars

\* Sessions and their turns, on one project.
SessionNext ==
  \/ Tick
  \/ start_session("p1")
  \/ \E sid \in SessionIds \cup {NoSession} : end_session(sid)
  \/ \E e \in Exchanges, sid \in SessionIds \cup {NoSession} :
       save_conversation_turn(Turn(e, "p1", sid, now))

SessionSpec == Init /\ [][SessionNext]_vars

\* The retention process over two projects.
CleanupNext ==
  \/ Tick
  \/ \E e \in Exchanges, p \in Projects :
       save_conversation_turn(Turn(e, p, NoSession, now))
  \/ \E d \in 0..MaxKeep : CleanupStart(d)
  \/ CleanupProject
  \/ CleanupDelete
  \/ CleanupCrash

CleanupSpec == Init /\ [][CleanupNext]_vars

\* The index rebuild over the files of WORKDIR.
IndexNext ==
  \/ \E p \in Paths, text \in Texts : \E mtime \in Mtimes(p) :
       WriteFile(p, text, mtime)
  \/ \E p \in Paths : DeleteFile(p)
  \/ RunStart
  \/ RunFile
  \/ RunEnd

IndexSpec == Init /\ [][IndexNext]_vars

\* Retrieval over an index that is built and rebuilt.
RetrieveNext ==
  \/ \E p \in Paths, text \in Texts : WriteFile(p, text, 1)
  \/ RunStart
  \/ RunFile
  \/ RunEnd
  \/ \E q \in Queries, top_k \in 0..MaxTopK, rag_enable \in BOOLEAN,
        embed_fails \in BOOLEAN :
       _retrieve_context(q, top_k, rag_enable, embed_fails)

RetrieveSpec == Init /\ [][RetrieveNext]_vars

\* Rebuilds and retrievals while files are removed or grow beyond the
\* enumeration limit.
TooLarge == <<"a", "b", "c", "d", "e", "f", "g">>

OrphanNext ==
  \/ \E p \in Paths, text \in {<<"x">>, TooLarge} : WriteFile(p, text, 1)
  \/ \E p \in Paths : DeleteFile(p)
  \/ RunStart
  \/ RunFile
  \/ RunEnd
  \/ \E q \in Queries : _retrieve_context(q, MaxTopK, TRUE, FALSE)

OrphanSpec == Init /\ [][OrphanNext]_vars

\* The path check of the file tools.
PathNext == \E path \in InputPaths : within_workdir(path)

PathSpec == Init /\ [][PathNext]_vars

\* One file written through the tool and removed while the clock advances.
WriteNext ==
  \/ Tick
  \/ \E content \in Contents : write_file("f1", content)
  \/ DeleteFile("f1")

WriteSpec == Init /\ [][WriteNext]_vars

\* Reads of a range of a file.
ReadNext ==
  \E file \in { << >> } \cup { <<b>> : b \in FileBytes },
     start \in Starts, size \in SizeArgs :
    read_file_range(file, start, size)

ReadSpec == Init /\ [][ReadNext]_vars

\* Searches of a tree of two files.
SearchNext ==
  \/ \E walk \in Walks, pattern \in { <<"pattern">>, <<"x">> },
        max_results \in 1..MaxResults :
       search_text(walk, pattern, max_results)
  \/ SearchLine

SearchSpec == Init /\ [][SearchNext]_vars

\* The context builder over long histories.  A history has n turns of
\* project p1, one per hour, each of one token except the turn at hour
\* heavy, which has three, and one turn of project p2 at the first hour.
Light == CHOOSE e \in Exchanges : Len(e.user_message \o e.assistant_message) = 1
Heavy == CHOOSE e \in Exchanges : Len(e.user_message \o e.assistant_message) = 3

StoredTurn(id, e, project_path, timestamp) ==
  [id |-> id, session_id |-> NoSession, timestamp |-> timestamp,
   project_path |-> project_path, user_message |-> e.user_message,
   assistant_message |-> e.assistant_message, tool_calls |-> e.tool_calls,
   tokens_used |-> e.tokens_used, cost |-> e.cost]

History(n, heavy) ==
  { StoredTurn(k, IF k = heavy THEN Heavy ELSE Light, "p1", k) : k \in 1..n }
    \cup { StoredTurn(n + 1, Light, "p2", 1) }

HistoryLengths == (FETCH_LIMIT - 1)..(FETCH_LIMIT + MaxTurns)

Histories ==
  UNION { { History(n, heavy) : heavy \in {0, 1, n - FETCH_LIMIT + 1, n - 1, n} } :
          n \in HistoryLengths }

\* The budgets asked for: the small ones, and those around the token
\* estimate of FETCH_LIMIT turns.
Budgets ==
  (0..MaxTokens) \cup ((FETCH_LIMIT - 1)..(FETCH_LIMIT + MaxTokens))

FetchInit ==
  /\ \E n \in HistoryLengths :
       /\ now = n
       /\ nextId = n + 2
       /\ conversations \in { h \in Histories : Cardinality(h) = n + 1 }
  /\ sessions = {}
  /\ context_summaries = << >>
  /\ cl = IdleFrame
  /\ ret = Returned("init", << >>, << >>)
  /\ purged = {}
  /\ crashed = {}
  /\ disk = [p \in Paths |-> << >>]
  /\ files = {}
  /\ chunks = << >>
  /\ run = IdleRun
  /\ clean = FALSE
  /\ EMBED_DB = FALSE

FetchNext ==
  \E p \in Projects, m \in Budgets : get_recent_context(p, m)

FetchSpec == FetchInit /\ [][FetchNext]_vars

\* The chat loop with its tool-call rounds.
ChatNext ==
  \/ ChatStart
  \/ \E rag \in BOOLEAN, calls \in 0..MaxToolCalls, raises \in BOOLEAN :
       UserTurn(rag, calls, raises)
  \/ \E calls \in 0..MaxToolCalls, raises \in BOOLEAN : ToolRound(calls, raises)
  \/ \E USE_STREAM \in BOOLEAN : FinalAnswer(USE_STREAM)
  \/ ChatQuit

ChatSpec == Init /\ [][ChatNext]_vars

\* The tool dispatcher.
DispatchNext ==
  \E name \in CalledNames, keys \in ArgumentKeys, path \in ToolPaths,
     present \in BOOLEAN, fails \in BOOLEAN :
    dispatch_tool(name, keys, path, present, fails)

DispatchSpec == Init /\ [][DispatchNext]_vars

\* with_retry around a call that returns or raises.
RetryNext ==
  \/ with_retry
  \/ \E v \in Results : CallReturns(v)
  \/ \E e \in Errors : CallRaises(e)

RetrySpec == Init /\ [][RetryNext]_vars

\* The chunker on its own.
ChunkNext ==
  \/ \E s \in ChunkTexts, size \in Sizes, overlap \in Overlaps :
       ChunkCall(s, size, overlap)
  \/ ChunkIterate

ChunkSpec == Init /\ [][ChunkNext]_vars

\* The context builder over two projects.
ContextNext ==
  \/ Tick
  \/ \E e \in Exchanges, p \in Projects :
       save_conversation_turn(Turn(e, p, NoSession, now))
  \/ \E p \in Projects, m \in 0..MaxTokens : get_recent_context(p, m)

ContextSpec == Init /\ [][ContextNext]_vars

\* The summarizer over two projects.  The clock moves by one lookback window
\* at a time, and each of the three windows elapses at most once.
Windows == {HOUR, DAY, WEEK}

Elapsed(t, step) ==
  CASE step = HOUR -> t % DAY
    [] step = DAY -> (t % WEEK) \div DAY
    [] step = WEEK -> t \div WEEK

Advance(step) ==
  /\ Elapsed(now, step) = 0
  /\ now' = now + step
  /\ ret' = Returned("tick", << >>, << >>)
  /\ UNCHANGED <<idxVars, conversations, nextId, sessions, context_summaries, cl,
                 purged, crashed>>

SummaryNext ==
  \/ \E step \in Windows : Advance(step)
  \/ \E e \in Exchanges, p \in Projects :
       save_conversation_turn(Turn(e, p, NoSession, now))
  \/ \E p \in Projects, period \in Periods : CreateSummary(p, period)

SummarySpec == Init /\ [][SummaryNext]_vars

\* The statistics of two projects, read between saves, the start of a
\* session and retention runs that keep nothing older than now.
StatsNext ==
  \/ Tick
  \/ start_session("p1")
  \/ \E e \in Exchanges, sid \in SessionIds \cup {NoSession} :
       save_conversation_turn(Turn(e, "p1", sid, now))
  \/ \E e \in Exchanges : save_conversation_turn(Turn(e, "p2", NoSession, now))
  \/ CleanupStart(0)
  \/ CleanupProject
  \/ CleanupDelete
  \/ \E p \in Projects : get_project_stats(p)

StatsSpec == Init /\ [][StatsNext]_vars

\* ------------------------------------------------------ retention claims
ArchivedRows(table, project_path) ==
  { i \in 1..Len(table) : /\ table[i].project_path = project_path
                          /\ table[i].period = "archived" }

CleanupReturns ==
  /\ cl.pc = "summarize"
  /\ ret'.op = "cleanup_old_conversations"
  /\ ret'.st = "ok"

SummaryWriteFails ==
  /\ cl.pc = "summarize"
  /\ ret'.op = "cleanup_old_conversations"
  /\ ret'.st = "error"

\* C1: inside cleanup_old_conversations, whatever step fails or is
\* interrupted, a turn is deleted only when an 'archived' summary of its
\* project is already committed, and only by a call none of whose summary
\* writes failed; the step in which a summary write fails deletes nothing
\* and ends the call.
C1_SummaryBeforeDelete ==
  [][ /\ \A t \in conversations :
            t \notin conversations' =>
              /\ ArchivedRows(context_summaries, t.project_path) # {}
              /\ ArchivedRows(context_summaries', t.project_path) # {}
              /\ ret.st = "running"
      /\ SummaryWriteFails => (conversations' = conversations /\ cl'.pc = "idle")
    ]_vars

\* A call wrote the archived summary of a project and then deleted one of
\* its turns.
C1_Witness ==
  /\ ret.op = "cleanup_old_conversations"
  /\ ret.st = "ok"
  /\ ret.val > 0
  /\ \E p \in purged : ArchivedRows(context_summaries, p) # {}

\* C2: the archived summary that cleanup_old_conversations writes for a
\* project is the summary of that project's turns older than the cutoff
\* (its text, topics and created files), the turns the call then deletes.
C2_SummaryOfOldTurns ==
  [][ (cl.pc = "summarize" /\ Len(context_summaries') = Len(context_summaries) + 1) =>
        LET row == context_summaries'[Len(context_summaries')]
            old == { t \in conversations :
                       /\ t.project_path = row.project_path
                       /\ t.timestamp < now - cl.days * DAY }
        IN \E ordered \in OrderByTimestampAsc(old) :
             /\ row.summary = _generate_summary(AllText(ordered))
             /\ row.key_topics = _extract_topics(AllText(ordered))
             /\ row.created_files = CreatedFiles(ordered)
    ]_vars

\* C3: when cleanup_old_conversations(days_to_keep) returns, no stored turn
\* is older than now - days_to_keep, every turn at or after that cutoff is
\* stored as before, and the result is the number of turns removed.
C3_RetentionWindow ==
  [][ CleanupReturns =>
        LET cutoff == now - ret'.arg * DAY IN
        /\ \A t \in conversations' : t.timestamp >= cutoff
        /\ \A t \in conversations : t.timestamp >= cutoff => t \in conversations'
        /\ conversations' \subseteq conversations
        /\ ret'.val = Cardinality(conversations \ conversations')
    ]_vars

\* A call with a retention of one day removed a turn two days old and kept
\* a younger one, and returned 1.
C3_Witness ==
  /\ ret.op = "cleanup_old_conversations"
  /\ ret.st = "ok"
  /\ ret.arg = 1
  /\ ret.val = 1
  /\ \E t \in conversations : t.timestamp >= now - DAY
  /\ nextId = 3

\* C4: after any sequence of cleanup_old_conversations calls, also one run
\* again after a crash between the summary write and the deletion, a
\* project has at most one 'archived' summary, and exactly one if one of
\* its turns was purged.
C4_OneArchivedSummary ==
  \A p \in Projects :
    /\ Cardinality(ArchivedRows(context_summaries, p)) <= 1
    /\ p \in purged => Cardinality(ArchivedRows(context_summaries, p)) = 1

\* A call died after writing a project's summary, and a later call purged
\* that project's turns.
C4_Witness ==
  \E p \in crashed : p \in purged

\* ------------------------------------------------- context builder claims
\* The token estimate of a returned context: its messages taken two by two.
RECURSIVE ContextTokens(_)
ContextTokens(context) ==
  IF Len(context) < 2 THEN 0
  ELSE Len(context[1].content) + Len(context[2].content)
         + ContextTokens(SubSeq(context, 3, Len(context)))

LatestRows(rows) == { t \in rows : \A u \in rows : u.timestamp <= t.timestamp }

AfterGetRecentContext == ret.op = "get_recent_context" /\ ret.st = "ok"

\* C5: for every history and every max_tokens M, the turns returned by
\* get_recent_context(project, M) have a total token estimate of at most M;
\* when the most recent turn alone exceeds M the result is empty.
C5_WithinBudget ==
  AfterGetRecentContext =>
    LET rows == { t \in conversations : t.project_path = ret.arg.project_path }
    IN /\ ContextTokens(ret.val) <= ret.arg.max_tokens
       /\ (rows # {} /\ \A t \in LatestRows(rows) :
                           Len(t.user_message) + Len(t.assistant_message)
                             > ret.arg.max_tokens)
            => ret.val = << >>

\* A call with a positive budget returned nothing, because the most recent
\* turn alone is over the budget.
C5_Witness ==
  /\ AfterGetRecentContext
  /\ ret.arg.max_tokens > 0
  /\ ret.val = << >>
  /\ \E t \in conversations : t.project_path = ret.arg.project_path

\* The messages of a sequence of turns, user then assistant, turn by turn.
RECURSIVE Messages(_)
Messages(ordered) ==
  IF ordered = << >> THEN << >>
  ELSE << [role |-> "user", content |-> Head(ordered).user_message],
          [role |-> "assistant", content |-> Head(ordered).assistant_message] >>
         \o Messages(Tail(ordered))

\* C6: the result of get_recent_context is chronological: the kept turns
\* oldest first, each as its user message followed by its assistant
\* message, the last one being a most recent turn of the project.
C6_Chronological ==
  AfterGetRecentContext =>
    LET rows == { t \in conversations : t.project_path = ret.arg.project_path }
    IN \E kept \in SUBSET rows :
         \E ordered \in OrderByTimestampAsc(kept) :
           /\ ret.val = Messages(ordered)
           /\ kept # {} => ordered[Len(ordered)] \in LatestRows(rows)

\* A call returned two turns of different age and different text.
C6_Witness ==
  /\ AfterGetRecentContext
  /\ Len(ret.val) = 4
  /\ ret.val[1].content # ret.val[3].content
  /\ \E t, u \in conversations :
       /\ t.project_path = ret.arg.project_path
       /\ u.project_path = ret.arg.project_path
       /\ t.timestamp < u.timestamp

\* ------------------------------------------------------- session claims
SessionTurns(session_id) == { t \in conversations : t.session_id = session_id }

\* C7: right after end_session(session_id) the session row holds the number
\* of stored turns of that session, the sums of their tokens_used and cost,
\* and an end time.
C7_Aggregates ==
  (ret.op = "end_session" /\ ret.st = "ok") =>
    \A s \in sessions :
      s.session_id = ret.arg =>
        /\ s.total_turns = Cardinality(SessionTurns(s.session_id))
        /\ s.total_tokens = SumTokensUsed(SessionTurns(s.session_id))
        /\ s.total_cost = SumCost(SessionTurns(s.session_id))
        /\ s.ended_at # << >>

\* A session was ended after two turns, of 2 and 1 tokens, were saved
\* under its id.
C7_Witness ==
  /\ ret.op = "end_session"
  /\ \E s \in sessions :
       /\ s.session_id = ret.arg
       /\ s.total_turns = 2
       /\ s.total_tokens = 3

\* C8: in every reachable state every finalized session's total_turns and
\* total_tokens equal the count and the tokens_used sum of the turns now
\* stored under its id.
C8_AggregatesReconcile ==
  \A s \in sessions :
    s.ended_at # << >> =>
      /\ s.total_turns = Cardinality(SessionTurns(s.session_id))
      /\ s.total_tokens = SumTokensUsed(SessionTurns(s.session_id))

\* --------------------------------------------------------- frame claims
ReadsAndSessionOps ==
  {"start_session", "end_session", "get_recent_context", "create_summary",
   "save_summary", "get_project_stats"}

\* C9: stored turns are append-only and immutable: a save adds exactly one
\* turn and keeps every other one, no step changes a stored turn, only the
\* DELETE of cleanup_old_conversations removes turns, and the session
\* operations and the reads leave the turns as they are.
C9_AppendOnly ==
  [][ /\ \A t \in conversations : t \in conversations' \/ CleanupReturns
      /\ \A t \in conversations : \A u \in conversations' :
            t.id = u.id => t = u
      /\ (ret'.op = "save_conversation_turn") =>
            /\ conversations \subseteq conversations'
            /\ Cardinality(conversations' \ conversations) = 1
      /\ (ret'.op \in ReadsAndSessionOps) => conversations' = conversations
      /\ (ret'.op # "save_conversation_turn") =>
            conversations' \subseteq conversations
    ]_vars

\* A turn was saved beside a stored one, after a session operation and a
\* cleanup that removed a turn.
C9_Witness ==
  /\ ret.op = "save_conversation_turn"
  /\ Cardinality(conversations) = 1
  /\ nextId = 3
  /\ purged # {}

\* ----------------------------------------------------------------- C10
\* A rebuild that runs while the index is clean (an earlier rebuild
\* committed every file it enumerated and no file changed since).
CleanRebuild == clean /\ run.pc = "files"

\* C10: a rebuild run with no file changed since a rebuild that committed
\* every file leaves every file record and every chunk row as they were
\* and returns files_indexed = 0 and chunks_indexed = 0.
C10_SecondRebuildIndexesNothing ==
  [][ CleanRebuild =>
        /\ files' = files
        /\ chunks' = chunks
        /\ run'.pc = "idle" =>
             ret'.val = [files_indexed |-> 0, chunks_indexed |-> 0] ]_vars

\* A second rebuild over two indexed files, one of them of several
\* chunks, has returned with the index clean.
C10_Witness ==
  /\ ret.op = "run_init_index"
  /\ ret.st = "ok"
  /\ clean
  /\ ret.val.files_indexed = 0
  /\ \A p \in Paths : Present(p) /\ _file_row(files, p) # {}
  /\ Len(chunks) > 3

\* ----------------------------------------------------------- C17..C19
\* _chunk_text has returned / was called within its contract
\* (size > 0 and 0 <= overlap < size).
ChunkReturned == ret.op = "_chunk_text" /\ ret.st = "ok"
InContract == ret.arg.size > 0 /\ 0 <= ret.arg.overlap /\ ret.arg.overlap < ret.arg.size
Boundaries(chs) == [k \in 1..Len(chs) |-> <<chs[k].start, chs[k].end>>]

\* C17: within the contract the chunks come in increasing start order and
\* their spans cover [0, len(T)) without a gap: the first start is 0, each
\* next start is at most the previous end, the last end is len(T), each
\* chunk's text is T[start:end], and the boundaries are a function of the
\* input (every call on the same input returns the same boundaries).
C17_CoversWithoutGap ==
  (ChunkReturned /\ InContract) =>
    LET T == ret.arg.s
        chs == ret.val
    IN /\ (T = << >>) => chs = << >>
       /\ (T # << >>) => /\ chs # << >>
                         /\ chs[1].start = 0
                         /\ chs[Len(chs)].end = Len(T)
       /\ \A k \in 1..(Len(chs) - 1) :
            /\ chs[k].start < chs[k + 1].start
            /\ chs[k + 1].start <= chs[k].end
       /\ \A k \in 1..Len(chs) :
            chs[k].text = SubSeq(T, chs[k].start + 1, chs[k].end)
       /\ \A pos \in 0..(Len(T) - 1) :
            \E k \in 1..Len(chs) : chs[k].start <= pos /\ pos < chs[k].end
       /\ Boundaries(chs) =
            Boundaries(_chunk_text(T, ret.arg.size, ret.arg.overlap))

\* A text was cut into three overlapping chunks.
C17_Witness ==
  /\ ChunkReturned
  /\ InContract
  /\ ret.arg.overlap > 0
  /\ Len(ret.val) >= 3

\* C18: within the contract each next start is the previous start plus
\* size - overlap, every chunk but the last has length size, the last ends
\* at len(T), no chunk follows the one that reaches len(T), and
\* 'hello world' with size 5 and overlap 1 gives (0,5), (4,9), (8,11).
C18_AdvanceRule ==
  (ChunkReturned /\ InContract) =>
    LET T == ret.arg.s
        chs == ret.val
    IN /\ \A k \in 1..(Len(chs) - 1) :
            /\ chs[k + 1].start = chs[k].start + (ret.arg.size - ret.arg.overlap)
            /\ chs[k].end - chs[k].start = ret.arg.size
            /\ chs[k].end < Len(T)
       /\ (chs # << >>) =>
            /\ chs[Len(chs)].end = Len(T)
            /\ chs[Len(chs)].end - chs[Len(chs)].start <= ret.arg.size
       /\ (T = HelloWorld /\ ret.arg.size = 5 /\ ret.arg.overlap = 1) =>
            Boundaries(chs) = << <<0, 5>>, <<4, 9>>, <<8, 11>> >>

\* 'hello world' was chunked with size 5 and overlap 1.
C18_Witness ==
  /\ ChunkReturned
  /\ ret.arg = [s |-> HelloWorld, size |-> 5, overlap |-> 1]
  /\ Len(ret.val) = 3

\* An iteration of the loop of _chunk_text that does not return.
Iterates ==
  /\ ret.op = "_chunk_text" /\ ret.st = "running"
  /\ ret'.op = "_chunk_text" /\ ret'.st = "running"

\* C19 as stated: for every text, size and overlap each iteration advances
\* the start by at least one and the number of chunks is at most len(T).
C19_AtMostLenChunks ==
  [][ /\ Iterates => ret'.val.i >= ret.val.i + 1
      /\ (ret'.op = "_chunk_text" /\ ret'.st = "ok") =>
            Len(ret'.val) <= Len(ret'.arg.s) ]_vars

\* C19, amended: for every text, size and overlap each iteration advances
\* the start by at least one while the start is inside the text, so the
\* loop ends; the number of chunks is at most len(T) when size > 0 and is
\* exactly one when size <= 0.
C19_Terminates ==
  [][ /\ Iterates => /\ ret.val.i < Len(ret.arg.s)
                     /\ ret'.val.i >= ret.val.i + 1
                     /\ Len(ret'.val.chunks) <= ret'.val.i
      /\ (ret'.op = "_chunk_text" /\ ret'.st = "ok") =>
            IF ret'.arg.size > 0
              THEN Len(ret'.val) <= Len(ret'.arg.s)
              ELSE Len(ret'.val) = 1 ]_vars

\* A call with overlap >= size returned one chunk per character.
C19_Witness ==
  /\ ChunkReturned
  /\ ret.arg.size > 0
  /\ ret.arg.overlap >= ret.arg.size
  /\ Len(ret.arg.s) = MaxLen
  /\ Len(ret.val) = MaxLen

\* ----------------------------------------------------------- C11..C14
\* A step of the rebuild that processes the file at the head of the list.
PassStep == run.pc = "files" /\ run.todo # << >> /\ run' # run

\* The file has no stored record, or its mtime, size or hash differs from
\* the stored record.
StaleIn(table, tree, fp) ==
  \A r \in table :
     r.path = fp => \/ r.mtime # tree[fp][1].mtime
                    \/ r.size # Len(tree[fp][1].content)
                    \/ r.sha256 # _sha256_bytes(tree[fp][1].content)

Stale(fp) == StaleIn(files, disk, fp)

ChunksOfFile(fp) == _chunk_text(disk[fp][1].content, CHUNK_SIZE, CHUNK_OVERLAP)

\* The chunk rows stored for the file with this id, in ordinal order.
RowsOf(rows, file_id) == SelectSeq(rows, LAMBDA r : r.file_id = file_id)

\* The rows are exactly the chunks chs: ordinals 0..n-1, offsets and text.
RowsAre(rows, chs) ==
  /\ Len(rows) = Len(chs)
  /\ \A k \in 1..Len(rows) :
       /\ rows[k].ord = k - 1
       /\ rows[k].start = chs[k].start
       /\ rows[k].end = chs[k].end
       /\ rows[k].text = chs[k].text

C12_ChunksReplaced ==
  [][ (PassStep /\ run'.last.wrote) =>
        LET fp == Head(run.todo)
            f == disk[fp][1]
        IN /\ Cardinality(_file_row(files', fp)) = 1
           /\ \A r \in _file_row(files', fp) :
                /\ r.mtime = f.mtime
                /\ r.size = Len(f.content)
                /\ r.sha256 = _sha256_bytes(f.content)
                /\ RowsAre(RowsOf(chunks', r.id), ChunksOfFile(fp)) ]_vars

\* The file indexed first was committed again after the other file: its
\* rows now follow the other file's rows.
C12_Witness ==
  /\ run.pc = "files"
  /\ run.last.wrote
  /\ Len(chunks) >= 2
  /\ chunks[1].file_id = 2
  /\ chunks[Len(chunks)].file_id = 1
  /\ \E r \in _file_row(files, run.last.path) : r.id = 1

\* Every file record has the complete chunk set of the content it
\* fingerprints, and every chunk row belongs to a file record.
WholeFiles ==
  /\ \A r \in files :
       \E t \in Texts : /\ r.sha256 = _sha256_bytes(t)
                        /\ r.size = Len(t)
                        /\ RowsAre(RowsOf(chunks, r.id),
                                   _chunk_text(t, CHUNK_SIZE, CHUNK_OVERLAP))
  /\ \A k \in 1..Len(chunks) : \E r \in files : r.id = chunks[k].file_id

\* C13: if the embedding of a file yields fewer vectors than chunks or the
\* insert fails, the file's record and all chunk rows stay as they were;
\* at every moment each file has the complete chunk set of the version its
\* record fingerprints, never a mix.
C13_PerFileAtomic ==
  [][ /\ (/\ PassStep
          /\ run'.last.chunked
          /\ \/ run'.last.vectors < Len(ChunksOfFile(Head(run.todo)))
             \/ run'.last.raised)
         => (files' = files /\ chunks' = chunks)
      /\ (files' # files \/ chunks' # chunks) => WholeFiles' ]_vars

\* The embedding of a new version of an indexed file stopped half way:
\* some vectors but fewer than chunks.
C13_Witness ==
  /\ run.pc = "files"
  /\ run.last.raised
  /\ run.last.vectors > 0
  /\ run.last.vectors < Len(ChunksOfFile(run.last.path))
  /\ _file_row(files, run.last.path) # {}

\* The number of chunk rows of the files committed by the running rebuild.
CommittedChunks ==
  Len(SelectSeq(chunks, LAMBDA c :
        \E r \in files : r.id = c.file_id /\ r.path \in run.committed))

\* C14: a file whose embedding fails is passed over and stays stale: the
\* rebuild goes on to the next file, what was committed stays committed,
\* and the counts returned are those of the committed files.
C14_FailureSkipsFile ==
  [][ /\ (PassStep /\ run'.last.requests # << >> /\ ~run'.last.wrote) =>
            /\ run'.pc = "files"
            /\ run'.todo = Tail(run.todo)
            /\ run'.committed = run.committed
            /\ run'.indexed_files = run.indexed_files
            /\ run'.indexed_chunks = run.indexed_chunks
            /\ files' = files
            /\ chunks' = chunks
            /\ StaleIn(files', disk', Head(run.todo))
      /\ (run.pc = "files" /\ run'.pc = "idle") =>
            /\ ret'.val.files_indexed = Cardinality(run.committed)
            /\ ret'.val.chunks_indexed = CommittedChunks ]_vars

\* A rebuild over two files: the first failed and is still stale, the
\* second was committed after it.
C14_Witness ==
  /\ run.pc = "files"
  /\ run.todo = << >>
  /\ run.enumerated = Paths
  /\ run.last.wrote
  /\ run.committed = {run.last.path}
  /\ \E fp \in Paths \ run.committed :
       Stale(fp) /\ ChunksOfFile(fp) # << >>

\* ----------------------------------------------------------- C15, C16
Retrieved == ret.op = "_retrieve_context" /\ ret.st = "ok"

\* C15: for every query, index content and top_k = K, K = 0 included,
\* _retrieve_context returns at most K results, sorted by score in
\* descending order.
C15_AtMostK ==
  Retrieved =>
    LET out == ret.val.results IN
    /\ Len(out) <= ret.arg.top_k
    /\ \A k \in 1..(Len(out) - 1) : out[k].score >= out[k + 1].score

\* C16: when retrieval is disabled, when there is no index file, or when
\* embedding the query fails, _retrieve_context returns the empty list,
\* raises nothing, does not open the index and leaves it as it was.
C16_EmptyWithoutIndex ==
  [][ (/\ ret'.op = "_retrieve_context"
       /\ ret' # ret
       /\ \/ ~ret'.arg.rag_enable
          \/ ~EMBED_DB
          \/ ret'.arg.embed_fails)
      => /\ ret'.st = "ok"
         /\ ret'.val.results = << >>
         /\ ~ret'.val.opened
         /\ idxVars' = idxVars ]_vars

\* The query could not be embedded although retrieval is enabled and the
\* index holds chunks.
C16_Witness ==
  /\ Retrieved
  /\ ret.arg.rag_enable
  /\ ret.arg.embed_fails
  /\ EMBED_DB
  /\ chunks # << >>
  /\ ret.val.results = << >>

\* ------------------------------------------------------------------ C20
\* The failures that count as transient: a rate limit, a timeout, a
\* status 429 reported after other words.
Transient(e) == e \in {RateLimit, Code429, Timeout}

\* C20: the wrapped operation is called again only after a failure
\* classified as transient; any other failure is raised at once, with no
\* sleep after it, and as the outcome of the first call it is raised after
\* exactly one call.
C20_RetryOnlyTransient ==
  [][ (ret'.op = "with_retry" /\ ret' # ret) =>
        LET f == ret'.val.failures IN
        /\ (ret'.st = "running" /\ f # << >>) =>
              /\ Transient(f[Len(f)])
              /\ ret'.val.sleeps = ret.val.sleeps + 1
        /\ (ret.op = "with_retry" /\ Len(f) > Len(ret.val.failures)
              /\ ~Transient(f[Len(f)])) =>
              /\ ret'.st = "error"
              /\ ret'.val.sleeps = ret.val.sleeps
              /\ ret'.val.calls = ret.val.calls + 1
              /\ Len(f) = 1 => (ret'.val.calls = 1 /\ ret'.val.sleeps = 0)
        /\ \A k \in 1..(Len(f) - 1) : Transient(f[k])
        /\ ret'.val.calls = ret'.val.attempt ]_vars

\* A failure that is not transient was raised as the outcome of the first
\* call.
C20_Witness ==
  /\ ret.op = "with_retry"
  /\ ret.st = "error"
  /\ ret.val.failures = <<InvalidKey>>
  /\ ret.val.calls = 1

\* ------------------------------------------------------------------ C21
\* C21: with_retry ends after at most max_attempts calls of the wrapped
\* operation: while it runs fewer than max_attempts calls were made, it
\* returns the value of the first call that succeeds (every call before it
\* failed), and when max_attempts calls failed transiently it raises the
\* failure of the last call.
C21_AtMostMaxAttempts ==
  [][ (ret'.op = "with_retry" /\ ret' # ret) =>
        LET v == ret'.val IN
        /\ v.calls <= MAX_ATTEMPTS
        /\ ret'.st = "running" => v.calls < MAX_ATTEMPTS
        /\ ret'.st = "ok" =>
              /\ v.calls = Len(v.failures) + 1
              /\ v.outcome[1] = "returned"
              /\ v.outcome[2] \in Results
              /\ v.failures = ret.val.failures
        /\ (/\ Len(v.failures) = MAX_ATTEMPTS
            /\ \A k \in 1..MAX_ATTEMPTS : Transient(v.failures[k])) =>
              /\ ret'.st = "error"
              /\ v.calls = MAX_ATTEMPTS
              /\ v.outcome = <<"raised", v.failures[MAX_ATTEMPTS]>> ]_vars

\* Six calls failed transiently and the failure of the sixth was raised.
C21_Witness ==
  /\ ret.op = "with_retry"
  /\ ret.st = "error"
  /\ ret.val.calls = MAX_ATTEMPTS
  /\ ret.val.sleeps = MAX_ATTEMPTS - 1
  /\ \A k \in 1..Len(ret.val.failures) : Transient(ret.val.failures[k])
  /\ ret.val.outcome = <<"raised", Timeout>>

\* ------------------------------------------------------ summarizer claims
\* The lookback window of a period.
Window(period) ==
  CASE period = "last_hour" -> HOUR
    [] period = "last_day" -> DAY
    [] period = "last_week" -> WEEK

\* The turns of a project stamped at or after clock - window.
InWindow(rows, project_path, period, clock) ==
  { t \in rows : /\ t.project_path = project_path
                 /\ t.timestamp >= clock - Window(period) }

\* C22: create_summary for a project with no turn in the lookback window
\* returns, without raising, the summary 'No recent activity' with no
\* topics, no decisions, no files and tokens_saved = 0, and it leaves the
\* stored turns, sessions and summaries as they were.
C22_NoActivity ==
  [][ (ret'.op = "create_summary" /\ ret' # ret) =>
        \A period \in Periods :
          (/\ ret'.val.period = period
           /\ InWindow(conversations, ret'.arg, period, now) = {}) =>
             /\ ret'.st = "ok"
             /\ ret'.val.summary = << <<"No", "recent", "activity">> >>
             /\ ret'.val.key_topics = << >>
             /\ ret'.val.created_files = {}
             /\ ret'.val.modified_files = {}
             /\ ret'.val.tokens_saved = 0
             /\ conversations' = conversations
             /\ context_summaries' = context_summaries
             /\ sessions' = sessions ]_vars

\* The project has turns, all of them older than a day, and a summary of
\* its last day reports no activity.
C22_Witness ==
  /\ ret.op = "create_summary"
  /\ ret.st = "ok"
  /\ ret.val.period = "last_day"
  /\ ProjectRows(conversations, ret.arg) # {}
  /\ InWindow(conversations, ret.arg, "last_day", now) = {}
  /\ ret.val.summary = << <<"No", "recent", "activity">> >>

\* C23: create_summary(project, period) summarizes exactly the turns of that
\* project stamped at or after now - window, the window being one hour, one
\* day or one week for 'last_hour', 'last_day', 'last_week': a turn stamped
\* exactly now - window is included, and no turn of another project is.
C23_AtOrAfterWindow ==
  [][ (ret'.op = "create_summary" /\ ret' # ret) =>
        LET period == ret'.val.period
            included == InWindow(conversations, ret'.arg, period, now)
        IN /\ period \in Periods
           /\ IF included = {}
                THEN ret'.val.summary = << <<"No", "recent", "activity">> >>
                ELSE \E ordered \in OrderByTimestampAsc(included) :
                       ret'.val = Summarize(ordered, period) ]_vars

\* The write_file calls recorded in a set of turns.
WriteFileCalls(rows) ==
  { c \in UNION { { t.tool_calls[k] : k \in 1..Len(t.tool_calls) } : t \in rows } :
      c.function.name = "write_file" }

\* C24: in a summary from create_summary, created_files is the set of the
\* 'path' arguments of the write_file calls recorded in the summarized
\* turns, whether the arguments were recorded as a JSON string or as a
\* mapping, it holds no path of any other call, and modified_files is empty.
C24_CreatedFiles ==
  [][ (ret'.op = "create_summary" /\ ret' # ret) =>
        LET included == SummaryRows(conversations, ret'.arg,
                                    Since(ret'.val.period, now))
        IN /\ ret'.val.modified_files = {}
           /\ ret'.val.created_files =
                { c.function.arguments[2].path : c \in WriteFileCalls(included) }
           /\ "." \notin ret'.val.created_files ]_vars

\* A summary of two turns: one wrote a.py with its arguments recorded as a
\* mapping, the other listed '.' and wrote b.py with its arguments recorded
\* as JSON strings.
C24_Witness ==
  /\ ret.op = "create_summary"
  /\ ret.st = "ok"
  /\ ret.val.created_files = {"a.py", "b.py"}
  /\ ret.val.modified_files = {}
  /\ \E c \in WriteFileCalls(ProjectRows(conversations, ret.arg)) :
       IsStr(c.function.arguments)
  /\ \E c \in WriteFileCalls(ProjectRows(conversations, ret.arg)) :
       ~IsStr(c.function.arguments)

\* ----------------------------------------------------------- stats claims
\* C25: get_project_stats is a pure read computed live: it returns the
\* count, the tokens_used sum, the earliest and latest timestamp and the
\* number of distinct session ids of exactly the turns of the project that
\* are stored when it is called (zeros and nulls when there are none),
\* whatever the sessions table and the other projects' turns hold, and it
\* changes no table.
C25_StatsLive ==
  [][ (ret'.op = "get_project_stats") =>
        LET mine == { t \in conversations : t.project_path = ret'.arg }
            v == ret'.val
        IN /\ ret'.st = "ok"
           /\ v.total_turns = Cardinality(mine)
           /\ v.total_tokens = SumTokensUsed(mine)
           /\ v.total_sessions = Cardinality({ t.session_id : t \in mine })
           /\ IF mine = {}
                THEN /\ v.first_conversation = << >>
                     /\ v.last_conversation = << >>
                     /\ v.total_tokens = 0
                ELSE /\ \E t \in mine : v.first_conversation = <<t.timestamp>>
                     /\ \E t \in mine : v.last_conversation = <<t.timestamp>>
                     /\ \A t \in mine :
                          /\ v.first_conversation[1] <= t.timestamp
                          /\ t.timestamp <= v.last_conversation[1]
           /\ conversations' = conversations
           /\ sessions' = sessions
           /\ context_summaries' = context_summaries ]_vars

\* The statistics of a project read after a retention run removed one of
\* its two turns, while a session is recorded: the turn that is left is
\* counted, with its timestamp as the earliest and the latest.
C25_Witness ==
  /\ ret.op = "get_project_stats"
  /\ ret.arg \in purged
  /\ ret.val.total_turns = 1
  /\ ret.val.first_conversation = <<now>>
  /\ sessions # {}

\* ---------------------------------------------------------- orphan claims
\* The chunk rows of a file record.
ChunkRowsOf(rows, file_id) == SelectSeq(rows, LAMBDA c : c.file_id = file_id)

\* The indexed files that an enumeration of the tree would not list.
Orphans(table, tree) ==
  { r \in table : \/ tree[r.path] = << >>
                  \/ Len(tree[r.path][1].content) > EMBED_MAX_FILE_BYTES }

\* C26: a rebuild never removes or changes the file record or the chunk
\* rows of an indexed file that it does not enumerate (the file was
\* removed or has grown too large), and every such chunk is returned by a
\* _retrieve_context call that asks for at least as many results as there
\* are chunks.
C26_OrphansStay ==
  [][ /\ (run' # run) =>
           \A r \in Orphans(files, disk) :
              /\ r \in files'
              /\ ChunkRowsOf(chunks', r.id) = ChunkRowsOf(chunks, r.id)
      /\ (/\ ret'.op = "_retrieve_context"
          /\ ret'.val.opened
          /\ ret'.arg.top_k >= Len(chunks)) =>
           \A r \in Orphans(files, disk) :
              LET rows == ChunkRowsOf(chunks, r.id)
                  results == ret'.val.results
              IN \A k \in 1..Len(rows) : \E n \in 1..Len(results) :
                    /\ results[n].path = r.path
                    /\ results[n].text = Take(rows[k].text, RAG_MAX_CHUNK_CHARS)
    ]_vars

\* After a rebuild that indexed the only enumerated file, the chunk of a
\* file removed before that rebuild is still stored and a retrieval
\* returns it.
C26_Witness ==
  /\ ret.op = "_retrieve_context"
  /\ clean
  /\ \E r \in Orphans(files, disk) :
       /\ disk[r.path] = << >>
       /\ ChunkRowsOf(chunks, r.id) # << >>
       /\ \E n \in 1..Len(ret.val.results) : ret.val.results[n].path = r.path
  /\ \E r \in files : r \notin Orphans(files, disk)

\* ------------------------------------------------------ file tool claims
\* A resolved path that is the directory itself or lies beneath it.
Beneath(p, dir) ==
  /\ Len(dir.parts) <= Len(p.parts)
  /\ SubSeq(p.parts, 1, Len(dir.parts)) = dir.parts
  /\ \A k \in 1..Len(p.parts) : p.parts[k] # DotDot

\* C27: for every path, relative or absolute, within_workdir either returns
\* a resolved path that is WORKDIR itself or lies beneath WORKDIR, or
\* raises PermissionError: it never returns a path outside WORKDIR.
C27_NeverOutside ==
  ret.op = "within_workdir" =>
    IF ret.st = "ok" THEN Beneath(ret.val, WORKDIR)
    ELSE ret.st = "error" /\ ret.val = "PermissionError"

\* C28: write_file on an existing file keeps the previous content: when it
\* returns, the file holds the new content, the non-empty 'backup' path
\* names an existing file that holds the content the file had just before
\* the call, and 'written' is the length of the new content; on a file
\* that did not exist 'backup' is empty and no other file is created or
\* changed.
C28_BackupKeepsPrevious ==
  [][ (ret'.op = "write_file") =>
        LET p == ret'.arg.path
            v == ret'.val
        IN /\ ret'.st = "ok"
           /\ exists(disk', p)
           /\ disk'[p][1].content = ret'.arg.content
           /\ v.written = Len(ret'.arg.content)
           /\ IF exists(disk, p)
                THEN /\ v.backup # ""
                     /\ v.backup # p
                     /\ exists(disk', v.backup)
                     /\ disk'[v.backup][1].content = disk[p][1].content
                ELSE /\ v.backup = ""
                     /\ DOMAIN disk' = DOMAIN disk
                     /\ \A q \in DOMAIN disk \ {p} : disk'[q] = disk[q]
    ]_vars

\* 'v2' was written over 'v1': the file holds 'v2', the backup holds 'v1'
\* and 2 characters are reported as written.
C28_Witness ==
  /\ ret.op = "write_file"
  /\ ret.val.written = 2
  /\ ret.val.backup # ""
  /\ exists(disk, ret.val.backup)
  /\ disk[ret.val.backup][1].content = <<"v", "1">>
  /\ disk[ret.arg.path][1].content = <<"v", "2">>

\* C29: read_file_range(path, start, size) returns the bytes of the file
\* from offset start, as many as size and DEFAULT_MAX_BYTES allow and the
\* file has left; 'size' in the result is the number of bytes returned,
\* and next_start is the offset just after the last returned byte, never
\* larger than file_size, so that reads with start = next_start go through
\* the file without gap or overlap.
C29_RangeAndNextStart ==
  (ret.op = "read_file_range" /\ "error" \notin DOMAIN ret.val) =>
    LET bytes == ret.arg.file[1]
        size == ret.arg.size
        v == ret.val
        from == Min(Len(bytes), Max(0, ret.arg.start))
        most == IF size = << >> THEN DEFAULT_MAX_BYTES
                ELSE Min(Max(0, size[1]), DEFAULT_MAX_BYTES)
    IN /\ v.file_size = Len(bytes)
       /\ v.size = Min(most, Len(bytes) - from)
       /\ v.content = decode(SubSeq(bytes, from + 1, from + v.size))
       /\ v.next_start = from + v.size
       /\ v.next_start <= v.file_size

\* The matching lines of the files from the given one on.
RECURSIVE MatchesFrom(_, _, _)
MatchesFrom(walk, pattern, i) ==
  IF i > Len(walk) THEN 0
  ELSE Cardinality({ k \in 1..Len(walk[i].lines) :
                       Contains(walk[i].lines[k], pattern) })
         + MatchesFrom(walk, pattern, i + 1)

\* C30: search_text never holds or returns more than max_results results;
\* it stops at the line whose match makes the count reach max_results and
\* then reports truncated = True, and it reports truncated = False when
\* the scan went through every file with fewer than max_results matches.
C30_AtMostMaxResults ==
  ret.op = "search_text" =>
    LET a == ret.arg
        v == ret.val
        n == Len(v.results)
    IN /\ n <= a.max_results
       /\ ret.st = "running" => n < a.max_results
       /\ ret.st = "ok" =>
            /\ v.truncated <=> n = a.max_results
            /\ v.truncated =>
                 /\ v.results[n].file = a.walk[v.i].name
                 /\ v.results[n].line = v.j
            /\ ~v.truncated =>
                 /\ v.i > Len(a.walk)
                 /\ n = MatchesFrom(a.walk, a.pattern, 1)

\* A search for at most one result stopped at the first match in the first
\* file although the second file has matching lines.
C30_Witness ==
  /\ ret.op = "search_text"
  /\ ret.st = "ok"
  /\ ret.val.truncated
  /\ Len(ret.val.results) = ret.arg.max_results
  /\ ret.val.i = 1
  /\ MatchesFrom(ret.arg.walk, ret.arg.pattern, 2) > 0

\* ------------------------------------------------------------ fetch claims
\* The token estimate of the first k turns of a sequence.
RECURSIVE TokensOfFirst(_, _)
TokensOfFirst(fetched, k) ==
  IF k = 0 THEN 0
  ELSE Len(fetched[k].user_message) + Len(fetched[k].assistant_message)
         + TokensOfFirst(fetched, k - 1)

\* C31: get_recent_context considers only the 50 most recent turns of the
\* project and returns a run of them that ends at the most recent turn: it
\* stops at the first turn, going back in time, whose estimate would take
\* the total above max_tokens, leaves that turn out and includes no older
\* turn, even one that would fit.
C31_RecentRunWithinCap ==
  AfterGetRecentContext =>
    LET rows == { t \in conversations : t.project_path = ret.arg.project_path }
        m == ret.arg.max_tokens
    IN \E newest_first \in OrderByTimestampDesc(rows) :
         LET cap == Min(FETCH_LIMIT, Len(newest_first)) IN
         \E k \in 0..cap :
           /\ TokensOfFirst(newest_first, k) <= m
           /\ k < cap => TokensOfFirst(newest_first, k + 1) > m
           /\ ret.val = Messages(Reverse(SubSeq(newest_first, 1, k)))

\* A call with a budget for more than 50 turns on a history of more than
\* 50 turns returned 50 turns.
C31_Witness ==
  /\ AfterGetRecentContext
  /\ Cardinality({ t \in conversations :
                     t.project_path = ret.arg.project_path }) > FETCH_LIMIT
  /\ ret.arg.max_tokens > FETCH_LIMIT + 2
  /\ Len(ret.val) = 2 * FETCH_LIMIT

\* ------------------------------------------------------------ batch claims
RECURSIVE SumOfRequests(_)
SumOfRequests(requests) ==
  IF requests = << >> THEN 0 ELSE Head(requests) + SumOfRequests(Tail(requests))

\* C32: every embedding request the rebuild sends for a file holds at most
\* EMBED_BATCH chunk texts, and the requests take the chunks in order, each
\* once: their sizes add up to the number of chunks of the file.  This is
\* so as well when an earlier batch of the same file failed.
C32_BatchesWithinBound ==
  [][ (PassStep /\ run'.last.chunked /\ run'.last.requests # << >>) =>
        /\ \A i \in 1..Len(run'.last.requests) :
              run'.last.requests[i] <= EMBED_BATCH
        /\ SumOfRequests(run'.last.requests)
             = Len(ChunksOfFile(run'.last.path)) ]_vars

\* -------------------------------------------------------- selection claims
\* The score of the stored chunk at position i of the join, for a query.
ScoreOf(query, i) ==
  _dot(_embed_batch(<<query>>)[1], loads(Joined[i].embedding))

\* The strictly increasing or otherwise ordered choices of n positions.
Picks(n, size) == { pick \in [1..size -> 1..n] :
                      \A j, k \in 1..size : j # k => pick[j] # pick[k] }

\* pick names the K best chunks for the query: the returned rows are the
\* picked chunks, best first, chunks of equal score in storage order, no
\* chunk left out scores higher than a returned one or ties with a
\* returned one stored after it, and each text is the prefix of at most
\* RAG_MAX_CHUNK_CHARS characters.
BestPick(out, query, pick) ==
  /\ \A j \in 1..Len(out) :
       /\ out[j].score = ScoreOf(query, pick[j])
       /\ out[j].path = Joined[pick[j]].path
       /\ out[j].text = SubSeq(Joined[pick[j]].text, 1,
                               Min(RAG_MAX_CHUNK_CHARS, Len(Joined[pick[j]].text)))
  /\ \A j, k \in 1..Len(out) :
       j < k => \/ ScoreOf(query, pick[j]) > ScoreOf(query, pick[k])
                \/ /\ ScoreOf(query, pick[j]) = ScoreOf(query, pick[k])
                   /\ pick[j] < pick[k]
  /\ \A i \in 1..Len(Joined) :
       (\A j \in 1..Len(out) : pick[j] # i) =>
          \A j \in 1..Len(out) :
             \/ ScoreOf(query, i) < ScoreOf(query, pick[j])
             \/ /\ ScoreOf(query, i) = ScoreOf(query, pick[j])
                /\ pick[j] < i

RetrieveStep ==
  /\ ret'.op = "_retrieve_context"
  /\ ret' # ret
  /\ ret'.val.opened

\* C33: _retrieve_context returns the K best-scoring chunks of the whole
\* index: K of them (all when the index holds fewer), every chunk that is
\* not returned scores no higher than the lowest returned score, chunks with
\* equal scores keep their storage order, and each returned text is the
\* prefix of the chunk's text of at most RAG_MAX_CHUNK_CHARS characters.
C33_KBest ==
  [][ RetrieveStep =>
        LET out == ret'.val.results
            K == ret'.arg.top_k
        IN /\ Len(out) = Min(K, Len(Joined))
           /\ \E pick \in Picks(Len(Joined), Len(out)) :
                 BestPick(out, ret'.arg.query, pick) ]_vars

\* The same for K >= 1.
C33_KBestFromOne ==
  [][ (RetrieveStep /\ ret'.arg.top_k >= 1) =>
        LET out == ret'.val.results
            K == ret'.arg.top_k
        IN /\ Len(out) = Min(K, Len(Joined))
           /\ \E pick \in Picks(Len(Joined), Len(out)) :
                 BestPick(out, ret'.arg.query, pick) ]_vars

\* ------------------------------------------------------ lifecycle claims
\* The stored summaries are kept as they are: rows are only appended.
SummariesKept ==
  /\ Len(context_summaries') >= Len(context_summaries)
  /\ SubSeq(context_summaries', 1, Len(context_summaries)) = context_summaries

\* The session rows with another id than session_id are the same before
\* and after the step.
OthersKept(session_id) ==
  { s \in sessions : s.session_id # session_id }
    = { s \in sessions' : s.session_id # session_id }

\* C34: a stored summary row is never modified or deleted by any
\* operation; cleanup_old_conversations leaves every session row as it is;
\* a session row only changes in end_session, and only the row of the
\* session id given.
C34_SummariesAndSessionsKept ==
  [][ /\ SummariesKept
      /\ (cl.pc # "idle" \/ cl'.pc # "idle") => sessions' = sessions
      /\ sessions' # sessions =>
            \/ /\ ret'.op = "start_session"
               /\ sessions \subseteq sessions'
            \/ /\ ret'.op = "end_session"
               /\ OthersKept(ret'.arg) ]_vars

\* A cleanup has deleted turns and written its summary while an ended
\* session is stored, after a summary was saved before it.
C34_Witness ==
  /\ ret.op = "cleanup_old_conversations"
  /\ ret.st = "ok"
  /\ purged # {}
  /\ Len(context_summaries) >= 2
  /\ \E s \in sessions : s.ended_at # << >> /\ s.total_turns > 0

\* ---------------------------------------------------- consistency claims
\* The content whose hash the record stores.
HashedContent(r) == CHOOSE t \in Texts : _sha256_bytes(t) = r.sha256

\* C35: after any sequence of rebuilds, with any pattern of embedding
\* failures, every chunk row belongs to an existing file record and
\* carries an embedding, and the chunk ordinals of every file record are
\* exactly 0..n-1, n being the number of chunks of the content whose hash
\* the record stores.
C35_IndexConsistent ==
  /\ \A k \in 1..Len(chunks) :
       /\ \E r \in files : r.id = chunks[k].file_id
       /\ chunks[k].embedding = dumps(Embedding(chunks[k].text))
  /\ \A r \in files :
       LET rows == RowsOf(chunks, r.id)
           n == Len(_chunk_text(HashedContent(r), CHUNK_SIZE, CHUNK_OVERLAP))
       IN /\ Len(rows) = n
          /\ { rows[k].ord : k \in 1..Len(rows) } = 0..(n - 1)

\* Two files are indexed; the last pass sent embedding requests for a new
\* version of one of them and wrote nothing, so that its record is that
\* of the earlier version.
C35_Witness ==
  /\ Cardinality(files) = 2
  /\ run.last.requests # << >>
  /\ ~run.last.wrote
  /\ \E r \in files :
       /\ r.path = run.last.path
       /\ Present(r.path)
       /\ r.sha256 # _sha256_bytes(disk[r.path][1].content)
       /\ Len(RowsOf(chunks, r.id)) > 1

\* ------------------------------------------------------------ chat claims
NonSystem(messages) == SelectSeq(messages, LAMBDA m : m.role # "system")

\* A request has just been prepared: before went into _trim_history and
\* sent came out of it.
Trimmed == Chatting /\ ret.val.pc = "answer"

\* C36: _trim_history returns the list unchanged when it has at most
\* MAX_HISTORY_MSGS + 1 messages; otherwise the result has at most
\* MAX_HISTORY_MSGS + 1 messages: the first system message followed by the
\* last MAX_HISTORY_MSGS non-system messages in their original order, so
\* that the original system prompt is kept and later system messages are
\* dropped.
C36_TrimKeepsPromptAndTail ==
  Trimmed =>
    LET before == ret.val.before
        after == ret.val.sent
        others == NonSystem(before)
        kept == Min(MAX_HISTORY_MSGS, Len(others))
    IN IF Len(before) <= MAX_HISTORY_MSGS + 1
         THEN after = before
         ELSE /\ Len(after) <= MAX_HISTORY_MSGS + 1
              /\ Len(after) = 1 + kept
              /\ after[1] = before[1]
              /\ after[1].role = "system"
              /\ \A k \in 1..kept :
                    after[1 + k] = others[Len(others) - kept + k]

\* A list of more than MAX_HISTORY_MSGS + 1 messages with a second system
\* message was trimmed.
C36_Witness ==
  /\ Trimmed
  /\ Len(ret.val.before) > MAX_HISTORY_MSGS + 1
  /\ \E k \in 2..Len(ret.val.before) : ret.val.before[k].role = "system"
  /\ Len(ret.val.sent) = MAX_HISTORY_MSGS + 1

\* The ids of the tool calls of the assistant messages before position i.
AskedBefore(messages, i) ==
  UNION { { messages[j].tool_calls[k] : k \in 1..Len(messages[j].tool_calls) } :
          j \in { j \in 1..(i - 1) : messages[j].role = "assistant" } }

\* C37: in every message list chat_loop sends to the model, each tool
\* message comes after the assistant message whose tool_calls holds its
\* tool_call_id, and each tool call of an assistant message of the list is
\* answered by exactly one tool message; after trimming and over any
\* number of rounds of tool calls.
C37_ToolMessagesPaired ==
  Chatting =>
    LET sent == ret.val.sent IN
    /\ \A i \in 1..Len(sent) :
         sent[i].role = "tool" =>
           sent[i].tool_call_id \in AskedBefore(sent, i)
    /\ \A id \in AskedBefore(sent, Len(sent) + 1) :
         Cardinality({ i \in 1..Len(sent) :
                         sent[i].role = "tool" /\ sent[i].tool_call_id = id }) = 1

\* -------------------------------------------------------- dispatch claims
Dispatched == ret.op = "dispatch_tool"

\* The call names a tool, its arguments fit the tool, and the path it
\* works on is neither WORKDIR nor beneath it.
OutsideWorkdir ==
  /\ ret.arg.name \in ToolNames
  /\ ~BadArguments(ret.arg.name, ret.arg.keys)
  /\ ~Beneath(Resolved(PathArgument(ret.arg.keys, ret.arg.path)), WORKDIR)

Untouched == ret.val.read = {} /\ ret.val.written = {}

\* C38: dispatch_tool never raises: for an unknown tool name, a path
\* outside WORKDIR, wrong arguments or an exception inside a tool it
\* returns a mapping with an 'error' entry, and for an unknown name and for
\* a path outside WORKDIR no file is read or written.
C38_ErrorMappingNoAccess ==
  Dispatched =>
    /\ ret.st = "ok"
    /\ ret.arg.name \notin ToolNames => (ret.val.error /\ Untouched)
    /\ (ret.arg.name \in ToolNames /\ BadArguments(ret.arg.name, ret.arg.keys))
         => ret.val.error
    /\ OutsideWorkdir => (ret.val.error /\ Untouched)
====
